---------------------------- MODULE Spec2Model ----------------------------
(***************************************************************************)
(* Statement-to-transaction pipeline of the budgeting backend:             *)
(*   TransactionController.processFile / updateTransaction /               *)
(*   deleteTransaction, FileProcessorService (extraction),                 *)
(*   AICategorizationService (categorizer, retry wrapper, batching)        *)
(* and the columns of the relational schema the pipeline reads and writes. *)
(*                                                                         *)
(* Amounts are integers in thousandths of a currency unit (-5.50 is -5500),*)
(* so that the two-decimal scale of the amount column can round.           *)
(***************************************************************************)
EXTENDS Integers, Sequences, FiniteSets, TLC

VARIABLES
  scenario,     \* which uploaded files exist and whether the classifier is configured
  today,        \* the processing day (index), read by normalizeDate's fallback
  fileStatus,   \* uploaded_files.status, per file id
  processedAt,  \* uploaded_files.processed_at is set, per file id
  txStore,      \* the rows of table transactions
  nextTxId,     \* next id the store hands out
  req,          \* the processFile requests, in the order they arrived
  started,      \* number of processFile requests that have arrived
  faults,       \* number of store / file-system failures that have happened
  edit,         \* the updateTransaction request in flight (or idle / done)
  edits,        \* number of update / delete requests that have arrived
  lastDelete,   \* the answer of the last deleteTransaction request
  cat,          \* one categorizeTransaction call (categorizer specification)
  batch,        \* one categorizeTransactions call (batch specification)
  ext,          \* one extraction of a file (extraction specification)
  deletedAt,    \* uploaded_files.deleted_at is set, per file id
  fileDelete,   \* the answer of the last deleteFile request
  budget,       \* one generateBudget call (budget specification)
  readers       \* the category cache and its concurrent readers (cache specification)

vars == <<scenario, today, fileStatus, processedAt, txStore, nextTxId, req,
          started, faults, edit, edits, lastDelete, cat, batch, ext, deletedAt, fileDelete, budget, readers>>

pipelineVars == <<scenario, today, fileStatus, processedAt, txStore, nextTxId,
                  req, started, faults, edit, edits, lastDelete>>

----------------------------------------------------------------------------
(* Bounds of the model *)

MaxRuns == 2      \* processFile requests per behaviour
MaxFaults == 2    \* injected store / file-system failures per behaviour
MaxEdits == 1     \* updateTransaction / deleteTransaction requests per behaviour
MaxDay == 2       \* days the clock can reach
MaxCalls == 2     \* categorizeTransaction calls per behaviour
MaxTicks == 3     \* half-lifetimes of the category cache the clock can pass
MaxRows == 2      \* rows of a tabular file given to the extraction
MaxLines == 2     \* lines of a document given to the extraction
MaxBatchInput == 7 \* longest list given to categorizeTransactions

(* Program constants *)

DescLimit == 500  \* description column width / truncation threshold
DescKeep == 497   \* characters kept before the truncation marker
MAX_RETRIES == 3
INITIAL_DELAY_MS == 1000
CACHE_TTL_MS == 60000
BatchSize == 5
BatchPauseMs == 1000

Users == {"u1", "u2"}
FileIds == {"f1", "f2"}

----------------------------------------------------------------------------
(* Small helpers *)

RECURSIVE Rep(_, _)
\* s repeated n times (by halving, to keep the evaluation shallow)
Rep(s, n) ==
  IF n = 0 THEN ""
  ELSE LET h == Rep(s, n \div 2) IN h \o h \o (IF n % 2 = 1 THEN s ELSE "")

RECURSIVE Flatten(_)
\* concatenation of a sequence of sequences
Flatten(ss) == IF ss = <<>> THEN <<>> ELSE Head(ss) \o Flatten(Tail(ss))

\* Math.abs as it would be if it kept the sign
signedAbs(n) == n

Abs(n) == IF n < 0 THEN -n ELSE n

endsWith(s, suffix) ==
  /\ Len(s) >= Len(suffix)
  /\ SubSeq(s, Len(s) - Len(suffix) + 1, Len(s)) = suffix

includes(s, k) ==
  \E i \in 1..(Len(s) - Len(k) + 1) : SubSeq(s, i, i + Len(k) - 1) = k

charAt(s, i) == SubSeq(s, i, i)

Digits == {"0", "1", "2", "3", "4", "5", "6", "7", "8", "9"}

digitValue(c) ==
  CASE c = "0" -> 0 [] c = "1" -> 1 [] c = "2" -> 2 [] c = "3" -> 3 [] c = "4" -> 4
    [] c = "5" -> 5 [] c = "6" -> 6 [] c = "7" -> 7 [] c = "8" -> 8 [] c = "9" -> 9
    [] OTHER -> 0

allDigits(s) == \A i \in 1..Len(s) : charAt(s, i) \in Digits

RECURSIVE trim(_)
\* String.prototype.trim, for blanks
trim(s) ==
  IF Len(s) > 0 /\ charAt(s, 1) = " " THEN trim(SubSeq(s, 2, Len(s)))
  ELSE IF Len(s) > 0 /\ charAt(s, Len(s)) = " " THEN trim(SubSeq(s, 1, Len(s) - 1))
  ELSE s

RECURSIVE removeChars(_, _)
\* s.replace(/[...]/g, '') for the set of characters cs
removeChars(s, cs) ==
  IF Len(s) <= 1 THEN (IF s \in cs THEN "" ELSE s)
  ELSE removeChars(SubSeq(s, 1, Len(s) \div 2), cs)
         \o removeChars(SubSeq(s, Len(s) \div 2 + 1, Len(s)), cs)

lowerChar(c) ==
  CASE c = "A" -> "a" [] c = "B" -> "b" [] c = "C" -> "c" [] c = "D" -> "d"
    [] c = "E" -> "e" [] c = "F" -> "f" [] c = "G" -> "g" [] c = "H" -> "h"
    [] c = "I" -> "i" [] c = "J" -> "j" [] c = "K" -> "k" [] c = "L" -> "l"
    [] c = "M" -> "m" [] c = "N" -> "n" [] c = "O" -> "o" [] c = "P" -> "p"
    [] c = "Q" -> "q" [] c = "R" -> "r" [] c = "S" -> "s" [] c = "T" -> "t"
    [] c = "U" -> "u" [] c = "V" -> "v" [] c = "W" -> "w" [] c = "X" -> "x"
    [] c = "Y" -> "y" [] c = "Z" -> "z" [] OTHER -> c

RECURSIVE toLowerCase(_)
toLowerCase(s) ==
  IF Len(s) <= 1 THEN lowerChar(s)
  ELSE toLowerCase(SubSeq(s, 1, Len(s) \div 2))
         \o toLowerCase(SubSeq(s, Len(s) \div 2 + 1, Len(s)))

----------------------------------------------------------------------------
(* Number and date conversions of the runtime, on the grammars the model's *)
(* inputs use.                                                             *)

NaN == [nan |-> TRUE, v |-> 0]
Num(n) == [nan |-> FALSE, v |-> n]

RECURSIVE digitsPrefixLen(_, _)
\* length of the longest run of digits of s starting at index i
digitsPrefixLen(s, i) ==
  IF i <= Len(s) /\ charAt(s, i) \in Digits THEN 1 + digitsPrefixLen(s, i + 1) ELSE 0

RECURSIVE digitsToInt(_)
digitsToInt(s) ==
  IF Len(s) = 0 THEN 0
  ELSE 10 * digitsToInt(SubSeq(s, 1, Len(s) - 1)) + digitValue(charAt(s, Len(s)))

\* parseFloat: optional sign, digits, optional fraction; the longest numeric prefix
\* is read, NaN when there is none. The value is in thousandths (fraction digits
\* beyond the third are cut).
parseFloat(str) ==
  LET s == trim(str)
      neg == Len(s) > 0 /\ charAt(s, 1) = "-"
      signed == Len(s) > 0 /\ charAt(s, 1) \in {"-", "+"}
      p == IF signed THEN 2 ELSE 1
      nInt == digitsPrefixLen(s, p)
      hasDot == p + nInt <= Len(s) /\ charAt(s, p + nInt) = "."
      nFrac == IF hasDot THEN digitsPrefixLen(s, p + nInt + 1) ELSE 0
      intPart == digitsToInt(SubSeq(s, p, p + nInt - 1))
      frac3 == SubSeq(SubSeq(s, p + nInt + 1, p + nInt + nFrac) \o "000", 1, 3)
      mag == intPart * 1000 + digitsToInt(frac3)
  IN IF nInt + nFrac = 0 THEN NaN ELSE Num(IF neg THEN -mag ELSE mag)

\* new Date(str) followed by toISOString().split('T')[0]: "" when the date is
\* invalid. Grammars: YYYY-MM-DD and MM/DD/YYYY.
parseDate(s) ==
  IF /\ Len(s) = 10 /\ charAt(s, 5) = "-" /\ charAt(s, 8) = "-"
     /\ allDigits(SubSeq(s, 1, 4) \o SubSeq(s, 6, 7) \o SubSeq(s, 9, 10))
  THEN s
  ELSE IF /\ Len(s) = 10 /\ charAt(s, 3) = "/" /\ charAt(s, 6) = "/"
          /\ allDigits(SubSeq(s, 1, 2) \o SubSeq(s, 4, 5) \o SubSeq(s, 7, 10))
  THEN SubSeq(s, 7, 10) \o "-" \o SubSeq(s, 1, 2) \o "-" \o SubSeq(s, 4, 5)
  ELSE ""

\* new Date().toISOString().split('T')[0] on day d of the run
todayISO(d) == "2026-11-0" \o ToString(d)

----------------------------------------------------------------------------
(* FileProcessorService *)

normalizeDate(dateStr, day) ==
  LET date == parseDate(trim(dateStr))
  IN IF date = "" THEN todayISO(day) ELSE date

dateKeys == <<"Date", "date", "Transaction Date", "Posting Date", "posting_date">>
descKeys == <<"Description", "description", "Merchant", "merchant", "Details", "details">>
amountKeys == <<"Amount", "amount", "Debit", "debit", "Credit", "credit">>

\* findValue as it would be if it looked under the first key only
findFirstKey(row, keys) ==
  IF keys # <<>> /\ Head(keys) \in DOMAIN row THEN row[Head(keys)] ELSE ""

RECURSIVE findValue(_, _)
\* first key of keys present in the row with a non-empty value; "" stands for null
findValue(row, keys) ==
  IF keys = <<>> THEN ""
  ELSE IF Head(keys) \in DOMAIN row /\ row[Head(keys)] # "" THEN row[Head(keys)]
  ELSE findValue(row, Tail(keys))

\* a sequence of no or one ExtractedTransaction
parseCSVRow(row, day) ==
  LET date == findValue(row, dateKeys)
      description == findValue(row, descKeys)
      amountStr == findValue(row, amountKeys)
      amount == parseFloat(removeChars(amountStr, {"$", ","}))
  IN IF date = "" \/ description = "" \/ amountStr = "" THEN <<>>
     ELSE IF amount.nan THEN <<>>
     ELSE << [date |-> normalizeDate(date, day),
              description |-> trim(description),
              amount |-> Abs(amount.v),
              isIncome |-> amount.v > 0] >>

processCSV(rows, day) ==
  Flatten([i \in 1..Len(rows) |-> parseCSVRow(rows[i], day)])

dedupKey(t) == t.date \o "-" \o t.description \o "-" \o ToString(t.amount)

RECURSIVE deduplicateFrom(_, _)
deduplicateFrom(transactions, seen) ==
  IF transactions = <<>> THEN <<>>
  ELSE LET t == Head(transactions)
       IN IF dedupKey(t) \in seen THEN deduplicateFrom(Tail(transactions), seen)
          ELSE <<t>> \o deduplicateFrom(Tail(transactions), seen \cup {dedupKey(t)})

deduplicateTransactions(transactions) == deduplicateFrom(transactions, {})

\* A line of document text is its text and what the patterns of each strategy
\* match on it (the regular expressions themselves are not modelled):
\*   s1: no or one [date, description, amountStr, paren]: the date token, the cleaned
\*       description, group 1 of the amount pattern, and whether the parenthesised
\*       pattern matched;
\*   s2: no or one [date, description, amount1, amount2]: groups 1 to 3 of the
\*       multi-column pattern ("" for an absent group 3) and the cleaned description;
\*   s3: no or one [date, description, amounts]: the date token, the cleaned
\*       description and group 1 of every match of the amount pattern.
Line(text, s1, s2, s3) == [text |-> text, s1 |-> s1, s2 |-> s2, s3 |-> s3]

incomeKeywords ==
  {"deposit", "credit", "refund", "payment received", "direct dep", "payroll",
   "salary", "income", "interest earned", "dividend", "cash back", "reimbursement",
   "transfer from", "venmo from", "zelle from", "paypal from"}

isIncomeTransaction(line, description, isDebit) ==
  \E lowerLine \in {toLowerCase(line \o " " \o description)} :
     \/ \E keyword \in incomeKeywords : includes(lowerLine, keyword)
     \/ ~isDebit /\ includes(lowerLine, "+")

skipPatterns ==
  {"balance", "total", "subtotal", "page", "statement", "account number", "routing",
   "opening", "closing", "previous", "date", "description", "amount", "debit",
   "credit", "beginning", "ending", "summary", "period"}

\* line.split(/\s+/).length, for words separated by single blanks
wordCount(line) == 1 + Cardinality({i \in 1..Len(line) : charAt(line, i) = " "})

isHeaderOrSummaryLine(line) ==
  \E lower \in {toLowerCase(line)} :
     \E q \in skipPatterns : includes(lower, q) /\ wordCount(line) < 5

\* a sequence of no or one ExtractedTransaction
made(keep, date, description, amount, isIncome) ==
  IF keep
  THEN << [date |-> date, description |-> description, amount |-> amount,
           isIncome |-> isIncome] >>
  ELSE <<>>

strategy1Match(line, m, description, parsed, day) ==
  made(~parsed.nan /\ Abs(parsed.v) # 0,
       normalizeDate(m.date, day), description, Abs(parsed.v),
       isIncomeTransaction(line.text, description,
          includes(line.text, "(") /\ includes(line.text, ")") /\ m.paren))

\* the transactions strategy 1 makes of one line
strategy1Line(line, day) ==
  IF Len(line.text) < 10 \/ isHeaderOrSummaryLine(line.text) \/ line.s1 = <<>>
  THEN <<>>
  ELSE strategy1Match(line, line.s1[1],
          IF line.s1[1].description = "" THEN "Unknown transaction"
          ELSE line.s1[1].description,
          parseFloat(removeChars(line.s1[1].amountStr, {"$", ","})), day)

parseStrategy1(lines, day) ==
  Flatten([i \in 1..Len(lines) |-> strategy1Line(lines[i], day)])

\* amount1 and amount2 are the parsed groups, amount2 = 0 when group 3 is absent
strategy2Match(line, m, amount1, amount2, day) ==
  IF Len(m.description) < 2 THEN <<>>
  ELSE IF amount2 > 0
  THEN made(TRUE, normalizeDate(m.date, day), m.description,
            IF amount1 > 0 THEN amount1 ELSE amount2, amount1 = 0)
  ELSE made(amount1 > 0, normalizeDate(m.date, day), m.description, amount1,
            isIncomeTransaction(line.text, m.description, FALSE))

\* the transactions strategy 2 makes of one line
strategy2Line(line, day) ==
  IF line.s2 = <<>> THEN <<>>
  ELSE strategy2Match(line, line.s2[1], parseFloat(line.s2[1].amount1).v,
                      parseFloat(line.s2[1].amount2).v, day)

parseStrategy2(lines, day) ==
  Flatten([i \in 1..Len(lines) |-> strategy2Line(lines[i], day)])

keptAmount(num) == ~num.nan /\ num.v # 0 /\ num.v < 1000000 * 1000

\* the amounts strategy 3 keeps of the tokens its pattern matched
keptAmounts(tokens) ==
  SelectSeq([i \in 1..Len(tokens) |-> parseFloat(removeChars(tokens[i], {","}))],
            keptAmount)

strategy3Match(line, m, amounts, day) ==
  made(Len(amounts) # 0 /\ Len(m.description) >= 2,
       normalizeDate(m.date, day), m.description, Abs(amounts[Len(amounts)].v),
       isIncomeTransaction(line.text, m.description, FALSE))

\* the transactions strategy 3 makes of one line
strategy3Line(line, day) ==
  IF Len(trim(line.text)) <= 5 \/ isHeaderOrSummaryLine(line.text) \/ line.s3 = <<>>
  THEN <<>>
  ELSE strategy3Match(line, line.s3[1], keptAmounts(line.s3[1].amounts), day)

parseStrategy3(lines, day) ==
  Flatten([i \in 1..Len(lines) |-> strategy3Line(lines[i], day)])

\* the cascade as it would be if it added the next strategy's result
orMerged(transactions, next) == transactions \o next

\* transactions, or what the next strategy finds when there are none
orElse(transactions, next) == IF Len(transactions) = 0 THEN next ELSE transactions

parseTransactionsFromText(lines, day) ==
  deduplicateTransactions(
     orElse(orElse(parseStrategy1(lines, day), parseStrategy2(lines, day)),
            parseStrategy3(lines, day)))

processPDF(file, day) == parseTransactionsFromText(file.lines, day)

csvMimeTypes == {"text/csv", "application/vnd.ms-excel", "application/octet-stream", "text/plain"}

\* FileProcessorService.processFile: [ok, txs] or the thrown error [ok = FALSE, error]
extractFile(file, day) ==
  IF file.mime_type = "application/pdf"
  THEN [ok |-> TRUE, txs |-> processPDF(file, day), error |-> ""]
  ELSE IF file.mime_type \in csvMimeTypes \/ endsWith(toLowerCase(file.file_path), ".csv")
  THEN [ok |-> TRUE, txs |-> processCSV(file.rows, day), error |-> ""]
  ELSE [ok |-> FALSE, txs |-> <<>>, error |-> "Unsupported file type"]

----------------------------------------------------------------------------
(* AICategorizationService: the rule-based fallback. Confidence in percent. *)

keywordGroups == <<
  [category |-> "Housing", confidence |-> 90, keywords |->
     {"rent", "mortgage", "hoa", "property", "landlord", "lease", "apartment", "housing"}],
  [category |-> "Transportation", confidence |-> 85, keywords |->
     {"uber", "lyft", "gas", "parking", "car", "auto", "fuel", "shell", "chevron",
      "exxon", "bp ", "transit", "metro", "subway", "bus"}],
  [category |-> "Food & Dining", confidence |-> 85, keywords |->
     {"restaurant", "cafe", "coffee", "food", "doordash", "grubhub", "ubereats",
      "postmates", "instacart", "grocery", "market", "starbucks", "mcdonald", "burger",
      "pizza", "chipotle", "subway", "wendy", "taco", "dunkin", "kroger", "safeway",
      "whole foods", "trader joe", "aldi", "costco", "publix"}],
  [category |-> "Utilities", confidence |-> 90, keywords |->
     {"electric", "water", "internet", "phone", "utility", "cable", "comcast",
      "xfinity", "verizon", "at&t", "att", "t-mobile", "sprint", "pge", "edison",
      "gas bill", "sewage", "trash"}],
  [category |-> "Entertainment", confidence |-> 85, keywords |->
     {"netflix", "spotify", "movie", "theater", "game", "music", "hulu", "disney",
      "hbo", "amazon prime", "apple tv", "youtube", "twitch", "steam", "playstation",
      "xbox", "nintendo", "concert", "ticket", "cinema", "amc"}],
  [category |-> "Shopping", confidence |-> 75, keywords |->
     {"amazon", "target", "walmart", "store", "shop", "best buy", "home depot",
      "lowes", "ikea", "ebay", "etsy", "nordstrom", "macy", "kohls", "jcpenney",
      "old navy", "gap", "nike", "adidas", "amzn", "purchase"}],
  [category |-> "Healthcare", confidence |-> 90, keywords |->
     {"pharmacy", "doctor", "medical", "health", "hospital", "cvs", "walgreens",
      "rite aid", "dental", "vision", "optical", "clinic", "urgent care", "insurance",
      "gym", "fitness", "planet fitness", "equinox"}],
  [category |-> "Personal Care", confidence |-> 85, keywords |->
     {"salon", "barber", "spa", "nail", "beauty", "haircut"}],
  [category |-> "Education", confidence |-> 85, keywords |->
     {"tuition", "school", "university", "college", "course", "udemy", "coursera",
      "book"}],
  [category |-> "Travel", confidence |-> 90, keywords |->
     {"airline", "hotel", "airbnb", "flight", "travel", "expedia", "booking", "delta",
      "united", "american air", "southwest", "marriott", "hilton", "hyatt"}],
  [category |-> "Subscriptions", confidence |-> 70, keywords |->
     {"subscription", "membership", "monthly", "annual", "recurring"}] >>

RECURSIVE firstGroup(_, _)
\* the first keyword group, from index g on, with a keyword contained in lowerDesc
firstGroup(lowerDesc, g) ==
  IF g > Len(keywordGroups)
  THEN [category |-> "Other", confidence |-> 50]
  ELSE IF \E k \in keywordGroups[g].keywords : includes(lowerDesc, k)
  THEN [category |-> keywordGroups[g].category,
        confidence |-> keywordGroups[g].confidence]
  ELSE firstGroup(lowerDesc, g + 1)

\* the fallback as it would be without its income rule
fallbackByKeywords(description, isIncome) ==
  LET hit == firstGroup(toLowerCase(description), 1)
  IN [description |-> description, category |-> hit.category,
      confidence |-> hit.confidence]

fallbackCategorization(description, isIncome) ==
  IF isIncome
  THEN [description |-> description, category |-> "Income", confidence |-> 80]
  ELSE LET hit == firstGroup(toLowerCase(description), 1)
       IN [description |-> description, category |-> hit.category,
           confidence |-> hit.confidence]

\* the vocabulary of the specification's data model
KnownCategories ==
  {"Housing", "Transportation", "Food & Dining", "Utilities", "Entertainment",
   "Shopping", "Healthcare", "Personal Care", "Education", "Travel", "Subscriptions",
   "Income", "Other"}

----------------------------------------------------------------------------
(* Uploaded files of the model's scenarios *)

RowStarbucks == [Date |-> "2024-01-15", Description |-> "Starbucks", Amount |-> "-5.50"]
RowSalary == [date |-> "01/16/2024", Merchant |-> " Salary ", Credit |-> "$3,000.00"]
RowBadDate == [Date |-> "pending", Description |-> "Uber trip", Amount |-> "-12.00"]
RowCents == [Date |-> "2024-01-15", Description |-> "Shell", Amount |-> "-5.51"]
RowMills == [Date |-> "2024-01-15", Description |-> "Shell", Amount |-> "-5.505"]
RowNoAmount == [Date |-> "2024-01-15", Description |-> "Opening", Amount |-> ""]
RowNotANumber == [Date |-> "2024-01-15", Description |-> "Fee", Amount |-> "n/a"]
\* two descriptions of 600 characters that differ only after character 497
LongA == "Rent " \o Rep("x", 592) \o "aaa"
LongB == "Rent " \o Rep("x", 592) \o "bbb"
RowLongA == [Date |-> "2024-01-15", Description |-> LongA, Amount |-> "-1.00"]
RowLongB == [Date |-> "2024-01-15", Description |-> LongB, Amount |-> "-1.00"]

\* a line all three strategies read
NetflixLine ==
  Line("01/15/2024 Netflix -15.99",
       << [date |-> "01/15/2024", description |-> "Netflix", amountStr |-> "-15.99",
           paren |-> FALSE] >>,
       << [date |-> "01/15/2024", description |-> "Netflix -", amount1 |-> "15.99",
           amount2 |-> ""] >>,
       << [date |-> "01/15/2024", description |-> "Netflix",
           amounts |-> <<"01", "15", "202", "4", "-15.99">>] >>)

RentLine ==
  Line("01/16/2024 Rent 900.00",
       << [date |-> "01/16/2024", description |-> "Rent", amountStr |-> "900.00",
           paren |-> FALSE] >>,
       << [date |-> "01/16/2024", description |-> "Rent", amount1 |-> "900.00",
           amount2 |-> ""] >>,
       << [date |-> "01/16/2024", description |-> "Rent",
           amounts |-> <<"01", "16", "202", "4", "900.00">>] >>)

\* the amount is not at the end of the line: strategy 1 finds none
RentDueLine ==
  Line("01/16/2024 Rent 900.00 due",
       <<>>,
       << [date |-> "01/16/2024", description |-> "Rent", amount1 |-> "900.00",
           amount2 |-> ""] >>,
       << [date |-> "01/16/2024", description |-> "Rent  due",
           amounts |-> <<"01", "16", "202", "4", "900.00">>] >>)

csvFile(user, rows) ==
  [user_id |-> user, mime_type |-> "text/csv", file_path |-> "uploads/statement.csv",
   rows |-> rows, lines |-> <<>>]
pdfFile(user, lines) ==
  [user_id |-> user, mime_type |-> "application/pdf", file_path |-> "uploads/statement.pdf",
   rows |-> <<>>, lines |-> lines]
\* passes the upload filter by its extension, with a type the processor does not know
oddFile(user) ==
  [user_id |-> user, mime_type |-> "application/x-pdf", file_path |-> "uploads/scan.pdf",
   rows |-> <<>>, lines |-> <<>>]

Scenarios == <<
  [ai |-> TRUE,
   files |-> [f1 |-> csvFile("u1", <<RowStarbucks, RowSalary>>),
              f2 |-> csvFile("u2", <<RowStarbucks>>)]],
  [ai |-> FALSE,
   files |-> [f1 |-> csvFile("u1", <<RowStarbucks, RowStarbucks>>),
              f2 |-> pdfFile("u1", <<NetflixLine, NetflixLine, RentLine>>)]],
  [ai |-> FALSE,
   files |-> [f1 |-> csvFile("u1", <<RowBadDate>>),
              f2 |-> oddFile("u1")]],
  [ai |-> FALSE,
   files |-> [f1 |-> csvFile("u1", <<RowCents, RowMills>>),
              f2 |-> csvFile("u1", <<RowNoAmount, RowNotANumber>>)]],
  [ai |-> FALSE,
   files |-> [f1 |-> csvFile("u1", <<RowLongA, RowLongB>>),
              f2 |-> pdfFile("u2", <<RentDueLine>>)]] >>

FileOf(f) == Scenarios[scenario].files[f]

----------------------------------------------------------------------------
(* The store *)

\* amount DECIMAL(10, 2): a value is rounded to two decimals when it is stored
storeAmount(a) == ((a + 5) \div 10) * 10

\* the description as cut by processFile before the duplicate check and the insert
truncateDescription(d) ==
  IF Len(d) > DescLimit THEN SubSeq(d, 1, DescKeep) \o "..." ELSE d

\* the duplicate check as it would be if it found no row
noDuplicateRows(user, date, description, amount) == {}

\* SELECT id FROM transactions WHERE user_id, transaction_date, description, amount
duplicateRows(user, date, description, amount) ==
  {t \in txStore : /\ t.user_id = user
                   /\ t.transaction_date = date
                   /\ t.description = description
                   /\ t.amount = amount}

newRow(id, user, fileId, transaction, description, category) ==
  [id |-> id, user_id |-> user, file_id |-> fileId,
   transaction_date |-> transaction.date,
   description |-> description,
   amount |-> storeAmount(transaction.amount),
   category |-> category.category,
   subcategory |-> category.subcategory,
   is_income |-> transaction.isIncome]

----------------------------------------------------------------------------
(* Categorization as the pipeline sees it: per transaction the classifier's *)
(* answer, or the fallback when the classifier is not configured or failed. *)

RemoteAnswer == [category |-> "Shopping", subcategory |-> "Online", confidence |-> 95]

withNoSubcategory(c) ==
  [description |-> c.description, category |-> c.category, subcategory |-> "",
   confidence |-> c.confidence]

categorized(t, remoteOk) ==
  IF remoteOk
  THEN [description |-> t.description, category |-> RemoteAnswer.category,
        subcategory |-> RemoteAnswer.subcategory, confidence |-> RemoteAnswer.confidence]
  ELSE withNoSubcategory(fallbackCategorization(t.description, t.isIncome))

\* results.push(...batchResults), batch after batch: result i belongs to input i
categorizeTransactions(transactions, remoteOk) ==
  [i \in 1..Len(transactions) |-> categorized(transactions[i], remoteOk[i])]

----------------------------------------------------------------------------
(* TransactionController.processFile, one step per awaited operation *)

Slots == 1..MaxRuns

NoResp == [code |-> 0, error |-> "", saved |-> 0, dup |-> 0]
IdleReq ==
  [pc |-> "idle", user |-> "", fileId |-> "", txs |-> <<>>, cats |-> <<>>, i |-> 1,
   saved |-> 0, dup |-> 0, error |-> "", resp |-> NoResp,
   reached |-> FALSE, empty |-> FALSE, failedRow |-> 0, catCalls |-> 0,
   ov |-> FALSE, rowsBefore |-> 0, gone |-> FALSE]

InFlight(r) == req[r].pc \notin {"idle", "done"}

ErrorResp(code, msg) == [code |-> code, error |-> msg, saved |-> 0, dup |-> 0]

\* the outer catch: answer 500 without touching the store
OuterCatch(r) ==
  req' = [req EXCEPT ![r].pc = "done",
                     ![r].resp = ErrorResp(500, "Failed to process file")]

\* the inner catch: remember the error, go on to record status 'error'
InnerCatch(r, msg) ==
  req' = [req EXCEPT ![r].pc = "catchSetError", ![r].error = msg]

\* the inner catch, entered from the save loop at row i
RowCatch(r, msg) ==
  req' = [req EXCEPT ![r].pc = "catchSetError", ![r].error = msg,
                     ![r].failedRow = req[r].i]

Fault == /\ faults < MaxFaults
         /\ faults' = faults + 1

NoFault == faults' = faults

StoreError == "connection terminated"

\* POST /api/transactions/process/:fileId arrives
StartProcessFile(r, user, f) ==
  /\ started < MaxRuns
  /\ r = started + 1
  /\ started' = started + 1
  /\ req' = [s \in Slots |->
               IF s = r
               THEN [IdleReq EXCEPT !.pc = "select", !.user = user, !.fileId = f,
                                    !.ov = \E o \in Slots : InFlight(o),
                                    !.gone = deletedAt[f]]
               ELSE IF InFlight(s) THEN [req[s] EXCEPT !.ov = TRUE] ELSE req[s]]
  /\ UNCHANGED <<scenario, today, fileStatus, processedAt, txStore, nextTxId, faults,
                 edit, edits, lastDelete, cat, batch, ext, deletedAt, fileDelete, budget, readers>>

\* the lookup as it would be without its user_id condition
selectAnyFile(f, user) == {f}

\* SELECT * FROM uploaded_files WHERE id = $1 AND user_id = $2
selectFile(f, user) == {g \in {f} : FileOf(g).user_id = user}

SelectFile(r) ==
  /\ req[r].pc = "select"
  /\ \/ /\ Fault
        /\ OuterCatch(r)
     \/ /\ NoFault
        /\ IF selectFile(req[r].fileId, req[r].user) = {}
           THEN req' = [req EXCEPT ![r].pc = "done",
                                   ![r].resp = ErrorResp(404, "File not found")]
           ELSE req' = [req EXCEPT ![r].pc = "setProcessing"]
  /\ UNCHANGED <<scenario, today, fileStatus, processedAt, txStore, nextTxId,
                 started, edit, edits, lastDelete, cat, batch, ext, deletedAt, fileDelete, budget, readers>>

\* UPDATE uploaded_files SET status = 'processing' WHERE id = $2
SetProcessing(r) ==
  /\ req[r].pc = "setProcessing"
  /\ \/ /\ Fault
        /\ OuterCatch(r)
        /\ UNCHANGED fileStatus
     \/ /\ NoFault
        /\ fileStatus' = [fileStatus EXCEPT ![req[r].fileId] = "processing"]
        /\ req' = [req EXCEPT ![r].pc = "extract", ![r].reached = TRUE,
                              ![r].rowsBefore =
                                 Cardinality({t \in txStore : t.user_id = req[r].user})]
  /\ UNCHANGED <<scenario, today, processedAt, txStore, nextTxId, started, edit,
                 edits, lastDelete, cat, batch, ext, deletedAt, fileDelete, budget, readers>>

\* FileProcessorService.processFile(file.file_path, file.mime_type). The clock is
\* read here only (normalizeDate's fallback), so the day moves on here: d is the day
\* on which this extraction runs.
Extract(r) ==
  /\ req[r].pc = "extract"
  /\ \E d \in today..MaxDay :
       /\ today' = d
       /\ \/ /\ Fault       \* the file cannot be read or parsed
             /\ InnerCatch(r, "read error")
          \/ /\ NoFault
             /\ LET x == extractFile(FileOf(req[r].fileId), d)
                IN IF ~x.ok THEN InnerCatch(r, x.error)
                   ELSE IF Len(x.txs) = 0
                   THEN req' = [req EXCEPT ![r].pc = "setErrorEmpty", ![r].empty = TRUE]
                   ELSE req' = [req EXCEPT ![r].pc = "categorize", ![r].txs = x.txs]
  /\ UNCHANGED <<scenario, fileStatus, processedAt, txStore, nextTxId,
                 started, edit, edits, lastDelete, cat, batch, ext, deletedAt, fileDelete, budget, readers>>

\* no transaction extracted: UPDATE ... status = 'error', answer 400
SetErrorEmpty(r) ==
  /\ req[r].pc = "setErrorEmpty"
  /\ \/ /\ Fault
        /\ InnerCatch(r, StoreError)
        /\ UNCHANGED fileStatus
     \/ /\ NoFault
        /\ fileStatus' = [fileStatus EXCEPT ![req[r].fileId] = "error"]
        /\ req' = [req EXCEPT ![r].pc = "done",
                              ![r].resp = ErrorResp(400, "No transactions found in file")]
  /\ UNCHANGED <<scenario, today, processedAt, txStore, nextTxId, started, edit,
                 edits, lastDelete, cat, batch, ext, deletedAt, fileDelete, budget, readers>>

\* AICategorizationService.categorizeTransactions(extractedTransactions.map(...))
Categorize(r) ==
  /\ req[r].pc = "categorize"
  /\ \E remoteOk \in [1..Len(req[r].txs) -> BOOLEAN] :
       /\ \A i \in 1..Len(req[r].txs) : remoteOk[i] => Scenarios[scenario].ai
       /\ req' = [req EXCEPT ![r].pc = "check",
                             ![r].cats = categorizeTransactions(req[r].txs, remoteOk),
                             ![r].catCalls = Len(req[r].txs),
                             ![r].i = 1, ![r].saved = 0, ![r].dup = 0]
  /\ UNCHANGED <<scenario, today, fileStatus, processedAt, txStore, nextTxId,
                 started, faults, edit, edits, lastDelete, cat, batch, ext, deletedAt, fileDelete, budget, readers>>

\* the loop's exit as it would be one row early
AfterRowBeforeLast(r) ==
  IF req[r].i + 1 >= Len(req[r].txs) THEN "setCompleted" ELSE "check"

AfterRow(r) == IF req[r].i + 1 > Len(req[r].txs) THEN "setCompleted" ELSE "check"

\* the duplicate check of row i
DuplicateCheck(r) ==
  /\ req[r].pc = "check"
  /\ \/ /\ Fault
        /\ RowCatch(r, StoreError)
     \/ /\ NoFault
        /\ LET transaction == req[r].txs[req[r].i]
               description == truncateDescription(transaction.description)
           IN IF duplicateRows(req[r].user, transaction.date, description,
                               transaction.amount) # {}
              THEN req' = [req EXCEPT ![r].dup = @ + 1, ![r].i = @ + 1,
                                      ![r].pc = AfterRow(r)]
              ELSE req' = [req EXCEPT ![r].pc = "insert"]
  /\ UNCHANGED <<scenario, today, fileStatus, processedAt, txStore, nextTxId,
                 started, edit, edits, lastDelete, cat, batch, ext, deletedAt, fileDelete, budget, readers>>

\* the insert of row i
InsertRow(r) ==
  /\ req[r].pc = "insert"
  /\ \/ /\ Fault
        /\ RowCatch(r, StoreError)
        /\ UNCHANGED <<txStore, nextTxId>>
     \/ /\ NoFault
        /\ LET transaction == req[r].txs[req[r].i]
               description == truncateDescription(transaction.description)
           IN txStore' = txStore \cup
                {newRow(nextTxId, req[r].user, req[r].fileId, transaction,
                        description, req[r].cats[req[r].i])}
        /\ nextTxId' = nextTxId + 1
        /\ req' = [req EXCEPT ![r].saved = @ + 1, ![r].i = @ + 1,
                              ![r].pc = AfterRow(r)]
  /\ UNCHANGED <<scenario, today, fileStatus, processedAt, started, edit, edits,
                 lastDelete, cat, batch, ext, deletedAt, fileDelete, budget, readers>>

\* UPDATE ... status = 'completed', processed_at = CURRENT_TIMESTAMP; answer the counts
SetCompleted(r) ==
  /\ req[r].pc = "setCompleted"
  /\ \/ /\ Fault
        /\ InnerCatch(r, StoreError)
        /\ UNCHANGED <<fileStatus, processedAt>>
     \/ /\ NoFault
        /\ fileStatus' = [fileStatus EXCEPT ![req[r].fileId] = "completed"]
        /\ processedAt' = [processedAt EXCEPT ![req[r].fileId] = TRUE]
        /\ req' = [req EXCEPT ![r].pc = "done",
                              ![r].resp = [code |-> 200, error |-> "",
                                           saved |-> req[r].saved, dup |-> req[r].dup]]
  /\ UNCHANGED <<scenario, today, txStore, nextTxId, started, edit, edits,
                 lastDelete, cat, batch, ext, deletedAt, fileDelete, budget, readers>>

\* the inner catch: UPDATE ... status = 'error', answer 500 with the error's message
CatchSetError(r) ==
  /\ req[r].pc = "catchSetError"
  /\ \/ /\ Fault
        /\ OuterCatch(r)
        /\ UNCHANGED fileStatus
     \/ /\ NoFault
        /\ fileStatus' = [fileStatus EXCEPT ![req[r].fileId] = "error"]
        /\ req' = [req EXCEPT ![r].pc = "done",
                              ![r].resp = ErrorResp(500, "Failed to process file: "
                                                           \o req[r].error)]
  /\ UNCHANGED <<scenario, today, processedAt, txStore, nextTxId, started, edit,
                 edits, lastDelete, cat, batch, ext, deletedAt, fileDelete, budget, readers>>

----------------------------------------------------------------------------
(* TransactionController.updateTransaction and deleteTransaction *)

NoField == [given |-> FALSE, value |-> ""]
Field(v) == [given |-> TRUE, value |-> v]

\* request bodies of PUT /api/transactions/:transactionId
EditBodies ==
  { [category |-> Field("Travel"), subcategory |-> NoField, description |-> NoField],
    [category |-> NoField, subcategory |-> Field("Trip"), description |-> Field(LongA)],
    [category |-> NoField, subcategory |-> NoField, description |-> NoField] }

NoBody == [category |-> NoField, subcategory |-> NoField, description |-> NoField]
IdleEdit == [pc |-> "idle", user |-> "", txId |-> 0, body |-> NoBody, code |-> 0]

\* ids a client can name: those of stored rows, and one that names no row
KnownTxIds == {t.id : t \in txStore} \cup {0}

substring(str, from, to) == SubSeq(str, from + 1, IF to > Len(str) THEN Len(str) ELSE to)

\* the request is answered with status code
Answered(code) == [edit EXCEPT !.pc = "done", !.code = code, !.body = NoBody]

StartUpdate(user, txId, body) ==
  /\ edits < MaxEdits
  /\ edit.pc \in {"idle", "done"}
  /\ edits' = edits + 1
  /\ edit' = [pc |-> "check", user |-> user, txId |-> txId, body |-> body, code |-> 0]
  /\ UNCHANGED <<scenario, today, fileStatus, processedAt, txStore, nextTxId, req,
                 started, faults, lastDelete, cat, batch, ext, deletedAt, fileDelete, budget, readers>>

\* SELECT id FROM transactions WHERE id = $1 AND user_id = $2, then the update is built
UpdateCheck ==
  /\ edit.pc = "check"
  /\ \/ /\ Fault
        /\ edit' = Answered(500)
     \/ /\ NoFault
        /\ IF {t \in txStore : t.id = edit.txId /\ t.user_id = edit.user} = {}
           THEN edit' = Answered(404)
           ELSE IF ~(edit.body.category.given \/ edit.body.subcategory.given
                       \/ edit.body.description.given)
           THEN edit' = Answered(400)
           ELSE edit' = [edit EXCEPT !.pc = "update"]
  /\ UNCHANGED <<scenario, today, fileStatus, processedAt, txStore, nextTxId, req,
                 started, edits, lastDelete, cat, batch, ext, deletedAt, fileDelete, budget, readers>>

\* the row as it would be if the statement set all three columns from the body
updatedRowAllColumns(t, body) ==
  [t EXCEPT !.category = body.category.value,
            !.subcategory = body.subcategory.value,
            !.description = substring(body.description.value, 0, DescLimit)]

updatedRow(t, body) ==
  [t EXCEPT !.category = IF body.category.given THEN body.category.value ELSE @,
            !.subcategory = IF body.subcategory.given THEN body.subcategory.value ELSE @,
            !.description = IF body.description.given
                            THEN substring(body.description.value, 0, DescLimit) ELSE @]

\* UPDATE transactions SET ... WHERE id = $n RETURNING *
UpdateApply ==
  /\ edit.pc = "update"
  /\ \/ /\ Fault
        /\ edit' = Answered(500)
        /\ UNCHANGED txStore
     \/ /\ NoFault
        /\ txStore' = {IF t.id = edit.txId THEN updatedRow(t, edit.body) ELSE t :
                         t \in txStore}
        /\ edit' = Answered(200)
  /\ UNCHANGED <<scenario, today, fileStatus, processedAt, nextTxId, req, started,
                 edits, lastDelete, cat, batch, ext, deletedAt, fileDelete, budget, readers>>

\* DELETE FROM transactions WHERE id = $1 AND user_id = $2 RETURNING id
DeleteTransaction(user, txId) ==
  /\ edits < MaxEdits
  /\ edits' = edits + 1
  /\ \/ /\ Fault
        /\ lastDelete' = [user |-> user, txId |-> txId, code |-> 500]
        /\ UNCHANGED txStore
     \/ /\ NoFault
        /\ LET hit == {t \in txStore : t.id = txId /\ t.user_id = user}
           IN /\ txStore' = txStore \ hit
              /\ lastDelete' = [user |-> user, txId |-> txId,
                                code |-> IF hit = {} THEN 404 ELSE 200]
  /\ UNCHANGED <<scenario, today, fileStatus, processedAt, nextTxId, req, started,
                 edit, cat, batch, ext, deletedAt, fileDelete, budget, readers>>

----------------------------------------------------------------------------
(* UploadController.deleteFile *)

NoFileDelete == [user |-> "", fileId |-> "", code |-> 0]

\* what the removal of the row of file f does to table transactions:
\* file_id REFERENCES uploaded_files(id) ON DELETE SET NULL
removeFile(store, f) ==
  {IF t.file_id = f THEN [t EXCEPT !.file_id = ""] ELSE t : t \in store}

\* what UPDATE uploaded_files SET deleted_at = CURRENT_TIMESTAMP does to table
\* transactions: nothing, no row of uploaded_files is removed
softDeleteFile(store, f) == store

\* UPDATE uploaded_files SET deleted_at = ... WHERE id = $1 AND user_id = $2 RETURNING id
DeleteFile(user, f) ==
  /\ \/ /\ Fault
        /\ fileDelete' = [user |-> user, fileId |-> f, code |-> 500]
        /\ UNCHANGED <<deletedAt, txStore>>
     \/ /\ NoFault
        /\ IF FileOf(f).user_id = user
           THEN /\ deletedAt' = [deletedAt EXCEPT ![f] = TRUE]
                /\ txStore' = softDeleteFile(txStore, f)
                /\ fileDelete' = [user |-> user, fileId |-> f, code |-> 200]
           ELSE /\ fileDelete' = [user |-> user, fileId |-> f, code |-> 404]
                /\ UNCHANGED <<deletedAt, txStore>>
  /\ UNCHANGED <<scenario, today, fileStatus, processedAt, nextTxId, req, started,
                 edit, edits, lastDelete, cat, batch, ext, budget, readers>>

----------------------------------------------------------------------------
(* BudgetRecommendationService.generateBudget, one step per awaited         *)
(* operation. Amounts in thousandths, the savings rate as a fraction.       *)

\* EXTRACT(MONTH FROM transaction_date) and EXTRACT(YEAR FROM transaction_date)
monthOf(date) == digitsToInt(SubSeq(date, 6, 7))
yearOf(date) == digitsToInt(SubSeq(date, 1, 4))

\* SELECT * FROM transactions WHERE user_id = $1 AND month = $2 AND year = $3
getTransactionHistory(store, user, month, year) ==
  {t \in store : /\ t.user_id = user
                 /\ monthOf(t.transaction_date) = month
                 /\ yearOf(t.transaction_date) = year}

RECURSIVE sumAmounts(_)
\* reduce((sum, t) => sum + parseFloat(t.amount), 0)
sumAmounts(rows) ==
  IF rows = {} THEN 0
  ELSE LET t == CHOOSE x \in rows : TRUE IN t.amount + sumAmounts(rows \ {t})

\* t.category || 'Other'
categoryOrOther(t) == IF t.category = "" THEN "Other" ELSE t.category

\* the map from category to the sum of the amounts of its expenses
aggregateByCategory(transactions) ==
  LET expenses == {t \in transactions : ~t.is_income}
  IN [c \in {categoryOrOther(t) : t \in expenses} |->
        sumAmounts({t \in expenses : categoryOrOther(t) = c})]

\* the fraction num / den, in percent
Rate(num, den) == [num |-> num, den |-> den]

\* totalIncome > 0 ? ((totalIncome - totalExpenses) / totalIncome) * 100 : 0
savingsRateOf(totalIncome, totalExpenses) ==
  IF totalIncome > 0 THEN Rate((totalIncome - totalExpenses) * 100, totalIncome)
  ELSE Rate(0, 1)

NoHistoryError == "No transaction history found for this period"

BudgetIdle ==
  [pc |-> "idle", user |-> "", month |-> 0, year |-> 0, transactions |-> {},
   categorySpending |-> [c \in {} |-> 0], totalIncome |-> 0, totalExpenses |-> 0,
   savingsRate |-> Rate(0, 1), recommendations |-> "", aiInsights |-> "",
   error |-> ""]

\* rows the store can hold: amounts as stored, a category cleared by an edit
BudgetRow(id, user, date, description, amount, category, isIncome) ==
  [id |-> id, user_id |-> user, file_id |-> "f1", transaction_date |-> date,
   description |-> description, amount |-> amount, category |-> category,
   subcategory |-> "", is_income |-> isIncome]

BudgetRows ==
  { BudgetRow(1, "u1", "2024-01-15", "Starbucks", 5500, "Food & Dining", FALSE),
    BudgetRow(2, "u1", "2024-01-16", "Salary", 3000000, "Income", TRUE),
    BudgetRow(3, "u1", "2024-01-17", "Whole Foods", 85200, "Food & Dining", FALSE),
    BudgetRow(4, "u1", "2024-01-18", "Adjustment", 0, "", FALSE),
    BudgetRow(5, "u1", "2024-01-19", "Rent", 4000000, "Housing", FALSE),
    BudgetRow(6, "u1", "2024-02-01", "Netflix", 15990, "Entertainment", FALSE),
    BudgetRow(7, "u2", "2024-01-15", "Bonus", 100000, "Income", TRUE) }

BudgetMonths == {1, 2, 3}
BudgetYears == {2024}

BudgetStart(user, month, year) ==
  /\ budget.pc \in {"idle", "done"}
  /\ budget' = [BudgetIdle EXCEPT !.pc = "history", !.user = user, !.month = month,
                                  !.year = year]
  /\ UNCHANGED <<pipelineVars, cat, batch, ext, deletedAt, fileDelete, readers>>

\* await getTransactionHistory; the empty history throws; the totals
BudgetHistory ==
  /\ budget.pc = "history"
  /\ \/ /\ Fault
        /\ budget' = [budget EXCEPT !.pc = "done", !.error = StoreError]
     \/ /\ NoFault
        /\ LET transactions == getTransactionHistory(txStore, budget.user,
                                                     budget.month, budget.year)
           IN IF transactions = {}
              THEN budget' = [budget EXCEPT !.pc = "done", !.error = NoHistoryError]
              ELSE budget' =
                     [budget EXCEPT
                        !.pc = "recommend",
                        !.transactions = transactions,
                        !.categorySpending = aggregateByCategory(transactions),
                        !.totalIncome = sumAmounts({t \in transactions : t.is_income}),
                        !.totalExpenses = sumAmounts({t \in transactions : ~t.is_income})]
  /\ UNCHANGED <<scenario, today, fileStatus, processedAt, txStore, nextTxId, req,
                 started, edit, edits, lastDelete, cat, batch, ext, deletedAt,
                 fileDelete, readers>>

\* await generateAIRecommendations: the classifier's list or the fallback list; then
\* the savings rate
BudgetRecommend ==
  /\ budget.pc = "recommend"
  /\ \E source \in {"ai", "fallback"} :
       budget' = [budget EXCEPT
                    !.pc = "insights",
                    !.recommendations = source,
                    !.savingsRate = savingsRateOf(budget.totalIncome,
                                                  budget.totalExpenses)]
  /\ UNCHANGED <<pipelineVars, cat, batch, ext, deletedAt, fileDelete, readers>>

\* await generateInsights: the classifier's text or the fallback text; the summary
BudgetInsights ==
  /\ budget.pc = "insights"
  /\ \E source \in {"ai", "fallback"} :
       budget' = [budget EXCEPT !.pc = "done", !.aiInsights = source]
  /\ UNCHANGED <<pipelineVars, cat, batch, ext, deletedAt, fileDelete, readers>>

----------------------------------------------------------------------------
(* AICategorizationService.categorizeTransaction, one step per awaited     *)
(* operation. Times in milliseconds, confidence in percent.                *)

\* the list returned when the category store cannot be read
DefaultCategories ==
  <<"Housing", "Transportation", "Food & Dining", "Utilities", "Entertainment",
    "Shopping", "Healthcare", "Income", "Other">>

\* what SELECT name FROM categories WHERE is_default = true can return
StoredCategories ==
  { <<"Housing", "Transportation", "Food & Dining", "Utilities", "Entertainment",
      "Shopping", "Healthcare", "Personal Care", "Education", "Travel",
      "Subscriptions", "Income", "Other">>,
    <<>> }

\* What one call of the remote classifier can do: fail with an HTTP status (0: no
\* status, a timeout or network error), or answer a text. A text is described by
\* where its code fence is ("none", "leading": the text starts with the fence,
\* "inner": prose precedes the fence) and by the JSON it carries.
Outcome(kind, status, fence, body, category, subcategory, confidence) ==
  [kind |-> kind, status |-> status, fence |-> fence, body |-> body,
   category |-> category, subcategory |-> subcategory, confidence |-> confidence]

Failure(status) == Outcome("error", status, "none", "empty", "", "", 0)
Text(fence, body) == Outcome("text", 0, fence, body, "", "", 0)
Object(fence, category, subcategory, confidence) ==
  Outcome("text", 0, fence, "object", category, subcategory, confidence)

NoOutcome == Outcome("none", 0, "none", "empty", "", "", 0)

RemoteOutcomes ==
  { Failure(0), Failure(500), Failure(401), Failure(403),
    Text("none", "empty"), Text("none", "malformed"), Text("leading", "empty"),
    Text("none", "null"), Text("none", "scalar"), Text("none", "array"),
    Object("none", "Shopping", "Online", 95),
    Object("leading", "Shopping", "Online", 95),
    Object("inner", "Shopping", "Online", 95),
    Object("none", "Groceries", "", 95),
    Object("none", "Shopping", "", 150),
    Object("none", "", "", 0) }

\* the function given to withRetry: the remote call, the empty-response test, the
\* removal of a leading code fence and JSON.parse
attempted(o) ==
  IF o.kind = "error"
  THEN [thrown |-> TRUE, status |-> o.status, value |-> NoOutcome]
  ELSE IF o.fence = "none" /\ o.body = "empty"
  THEN [thrown |-> TRUE, status |-> 0, value |-> NoOutcome]      \* 'No response from AI'
  ELSE IF o.fence = "inner" \/ o.body \in {"empty", "malformed"}
  THEN [thrown |-> TRUE, status |-> 0, value |-> NoOutcome]      \* SyntaxError
  ELSE [thrown |-> FALSE, status |-> 0, value |-> o]

\* withRetry as it would be without its test of the status
afterThrowAnyStatus(status, attempt) ==
  IF attempt < MAX_RETRIES - 1 THEN "sleep" ELSE "throw"

\* withRetry: what follows a throwing attempt number `attempt` (from 0)
afterThrow(status, attempt) ==
  IF status = 401 \/ status = 403 THEN "throw"
  ELSE IF attempt < MAX_RETRIES - 1 THEN "sleep"
  ELSE "throw"

RECURSIVE pow2(_)
pow2(n) == IF n = 0 THEN 1 ELSE 2 * pow2(n - 1)

retryDelay(attempt) == INITIAL_DELAY_MS * pow2(attempt)

NoResult == [description |-> "", category |-> "", subcategory |-> "", confidence |-> 0]

\* the catch block as it would be if it let the error escape
afterCatchRethrow(description, isIncome) ==
  [raised |-> TRUE, path |-> "raised", result |-> NoResult]

\* the catch block of categorizeTransaction
afterCatch(description, isIncome) ==
  [raised |-> FALSE, path |-> "fallback",
   result |-> withNoSubcategory(fallbackCategorization(description, isIncome))]

\* the object returned from the parsed answer; reading a property of null throws,
\* a property a scalar or an array does not have is undefined
fromAnswer(description, isIncome, value) ==
  IF value.body = "null"
  THEN afterCatch(description, isIncome)
  ELSE [raised |-> FALSE, path |-> "remote",
        result |-> [description |-> description,
                    category |-> IF value.category = "" THEN "Other" ELSE value.category,
                    subcategory |-> value.subcategory,
                    confidence |-> IF value.confidence = 0 THEN 50
                                   ELSE value.confidence]]

NoCache == [set |-> FALSE, names |-> <<>>, time |-> 0]

CatIdle(configured) ==
  [pc |-> "idle", configured |-> configured, description |-> "", isIncome |-> FALSE,
   categories |-> <<>>, storeFailed |-> FALSE, attempt |-> 0, slept |-> <<>>,
   remote |-> NoOutcome, result |-> NoResult, raised |-> FALSE, path |-> "",
   calls |-> 0, cache |-> NoCache, now |-> 0]

CatInputs ==
  { [description |-> "Netflix", isIncome |-> FALSE],
    [description |-> "Wire 4471", isIncome |-> FALSE],
    [description |-> "Salary", isIncome |-> TRUE] }

TickMs == CACHE_TTL_MS \div 2

\* categorizeTransaction(description, amount, isIncome) is called
CatStart(in) ==
  /\ cat.pc \in {"idle", "done"}
  /\ cat.calls < MaxCalls
  /\ LET c == [cat EXCEPT !.description = in.description, !.isIncome = in.isIncome,
                          !.calls = @ + 1, !.attempt = 0, !.slept = <<>>,
                          !.remote = NoOutcome, !.storeFailed = FALSE,
                          !.categories = <<>>, !.result = NoResult,
                          !.raised = FALSE, !.path = ""]
     IN IF ~cat.configured
        THEN cat' = [c EXCEPT !.pc = "done", !.path = "fallback",
                              !.result = withNoSubcategory(
                                  fallbackCategorization(in.description, in.isIncome))]
        ELSE cat' = [c EXCEPT !.pc = "categories"]
  /\ UNCHANGED <<pipelineVars, batch, ext, deletedAt, fileDelete, budget, readers>>

\* getCategories()
GetCategories ==
  /\ cat.pc = "categories"
  /\ IF cat.cache.set /\ cat.now - cat.cache.time < CACHE_TTL_MS
     THEN cat' = [cat EXCEPT !.pc = "remote", !.categories = cat.cache.names]
     ELSE \/ \E names \in StoredCategories :
               cat' = [cat EXCEPT !.pc = "remote", !.categories = names,
                                  !.cache = [set |-> TRUE, names |-> names,
                                             time |-> cat.now]]
          \/ cat' = [cat EXCEPT !.pc = "remote", !.categories = DefaultCategories,
                                !.storeFailed = TRUE]
  /\ UNCHANGED <<pipelineVars, batch, ext, deletedAt, fileDelete, budget, readers>>

\* one attempt of withRetry and, when it is the last one, the rest of the call
RemoteAttempt ==
  /\ cat.pc = "remote"
  /\ \E o \in RemoteOutcomes :
       LET a == attempted(o)
           c == [cat EXCEPT !.remote = o]
       IN IF ~a.thrown
          THEN cat' = [c EXCEPT !.pc = "done",
                         !.result = fromAnswer(cat.description, cat.isIncome, a.value).result,
                         !.raised = fromAnswer(cat.description, cat.isIncome, a.value).raised,
                         !.path = fromAnswer(cat.description, cat.isIncome, a.value).path]
          ELSE IF afterThrow(a.status, cat.attempt) = "sleep"
          THEN cat' = [c EXCEPT !.pc = "sleep"]
          ELSE cat' = [c EXCEPT !.pc = "done",
                         !.result = afterCatch(cat.description, cat.isIncome).result,
                         !.raised = afterCatch(cat.description, cat.isIncome).raised,
                         !.path = afterCatch(cat.description, cat.isIncome).path]
  /\ UNCHANGED <<pipelineVars, batch, ext, deletedAt, fileDelete, budget, readers>>

\* await sleep(delay) between two attempts
RetrySleep ==
  /\ cat.pc = "sleep"
  /\ cat' = [cat EXCEPT !.pc = "remote", !.attempt = @ + 1,
                        !.slept = Append(@, retryDelay(cat.attempt)),
                        !.now = @ + retryDelay(cat.attempt)]
  /\ UNCHANGED <<pipelineVars, batch, ext, deletedAt, fileDelete, budget, readers>>

\* time passes between two calls
CatTick ==
  /\ cat.pc \in {"idle", "done"}
  /\ cat.now < MaxTicks * TickMs
  /\ cat' = [cat EXCEPT !.now = @ + TickMs]
  /\ UNCHANGED <<pipelineVars, batch, ext, deletedAt, fileDelete, budget, readers>>

----------------------------------------------------------------------------
(* AICategorizationService.getCategories called by concurrent categorizations: *)
(* the statics categoriesCache and categoriesCacheTime, one step per awaited   *)
(* operation                                                                   *)

Readers == {1, 2}

ReaderIdle ==
  [pc |-> "idle", now |-> 0, got |-> <<>>, source |-> "", age |-> 0, reads |-> 0]

ReadersIdle == [clock |-> 0, cache |-> NoCache, reader |-> [r \in Readers |-> ReaderIdle]]

\* the test of the cache as it would be with <= for <
cachedOrAtTTL(cache, now) == cache.set /\ now - cache.time <= CACHE_TTL_MS

\* this.categoriesCache && now - this.categoriesCacheTime < this.CACHE_TTL_MS
cached(cache, now) == cache.set /\ now - cache.time < CACHE_TTL_MS

\* getCategories() up to its await: now is read, the cache answers or the store is asked
ReadStart(r) ==
  /\ readers.reader[r].pc \in {"idle", "done"}
  /\ readers.reader[r].reads < MaxCalls
  /\ IF cached(readers.cache, readers.clock)
     THEN readers' = [readers EXCEPT
            !.reader[r] = [pc |-> "done", now |-> readers.clock,
                           got |-> readers.cache.names, source |-> "cache",
                           age |-> readers.clock - readers.cache.time,
                           reads |-> @.reads + 1]]
     ELSE readers' = [readers EXCEPT
            !.reader[r] = [pc |-> "query", now |-> readers.clock, got |-> <<>>,
                           source |-> "", age |-> 0, reads |-> @.reads + 1]]
  /\ UNCHANGED <<pipelineVars, cat, batch, ext, deletedAt, fileDelete, budget>>

\* the query returns: the cache and its time are replaced, or the catch answers
ReadReturn(r) ==
  /\ readers.reader[r].pc = "query"
  /\ \/ \E names \in StoredCategories :
          readers' = [readers EXCEPT
            !.cache = [set |-> TRUE, names |-> names, time |-> readers.reader[r].now],
            !.reader[r] = [@ EXCEPT !.pc = "done", !.got = names, !.source = "store"]]
     \/ readers' = [readers EXCEPT
            !.reader[r] = [@ EXCEPT !.pc = "done", !.got = DefaultCategories,
                                   !.source = "default"]]
  /\ UNCHANGED <<pipelineVars, cat, batch, ext, deletedAt, fileDelete, budget>>

\* time passes, also while a query is awaited
ReadTick ==
  /\ readers.clock < MaxTicks * TickMs
  /\ readers' = [readers EXCEPT !.clock = @ + TickMs]
  /\ UNCHANGED <<pipelineVars, cat, batch, ext, deletedAt, fileDelete, budget>>

----------------------------------------------------------------------------
(* AICategorizationService.categorizeTransactions: batches of categorizations *)
(* running concurrently, each batch awaited as a whole                        *)

BatchNames == <<"Netflix", "Salary", "Uber", "Rent">>

\* the j-th extracted transaction of a file: no two alike
BatchItem(j) ==
  [description |-> BatchNames[((j - 1) % Len(BatchNames)) + 1] \o " " \o ToString(j),
   amount |-> 1000 * j,
   isIncome |-> (j % Len(BatchNames) = 2)]

\* the lists of the first n transactions, for every length
BatchInputs ==
  { [j \in 1..n |-> BatchItem(j)] : n \in 0..MaxBatchInput }

Min(a, b) == IF a < b THEN a ELSE b

\* the slice as it would be without its end index
sliceToEnd(transactions, i) == SubSeq(transactions, i + 1, Len(transactions))

\* transactions.slice(i, i + 5)
slice(transactions, i) == SubSeq(transactions, i + 1, Min(i + BatchSize, Len(transactions)))

BatchIdle ==
  [pc |-> "idle", input |-> <<>>, i |-> 0, pending |-> {}, batchResults |-> <<>>,
   order |-> <<>>, results |-> <<>>, pauses |-> 0, remoteOk |-> <<>>,
   overtaken |-> FALSE, pausedMs |-> 0]

entered(b, i) ==
  [b EXCEPT !.i = i, !.pending = 1..Len(slice(b.input, i)),
            !.batchResults = [k \in 1..Len(slice(b.input, i)) |-> NoResult],
            !.order = <<>>]

\* the results of a batch as they would be in the order the categorizations finished
collectedAsFinished(batchResults, order) ==
  [j \in 1..Len(order) |-> batchResults[order[j]]]

\* await Promise.all(batch.map(...)): the results in the order of the batch
collected(batchResults, order) == batchResults

\* categorizeTransactions(transactions) is called
BatchStart(transactions) ==
  /\ batch.pc = "idle"
  /\ LET b == [BatchIdle EXCEPT !.input = transactions,
                                !.remoteOk = [j \in 1..Len(transactions) |-> FALSE]]
     IN IF Len(transactions) = 0
        THEN batch' = [b EXCEPT !.pc = "done"]
        ELSE batch' = [entered(b, 0) EXCEPT !.pc = "batch"]
  /\ UNCHANGED <<pipelineVars, cat, ext, deletedAt, fileDelete, budget, readers>>

\* one categorizeTransaction of the running batch returns
BatchComplete(k, remoteOk) ==
  /\ batch.pc = "batch"
  /\ k \in batch.pending
  /\ batch' = [batch EXCEPT
        !.pending = @ \ {k},
        !.batchResults[k] = categorized(batch.input[batch.i + k], remoteOk),
        !.order = Append(@, k),
        !.remoteOk[batch.i + k] = remoteOk,
        !.overtaken = @ \/ \E j \in batch.pending : j < k]
  /\ UNCHANGED <<pipelineVars, cat, ext, deletedAt, fileDelete, budget, readers>>

\* the batch is complete: results.push(...batchResults), the pause, the next batch
BatchCollect ==
  /\ batch.pc = "batch"
  /\ batch.pending = {}
  /\ LET b == [batch EXCEPT !.results = @ \o collected(batch.batchResults, batch.order)]
     IN IF batch.i + BatchSize < Len(batch.input)
        THEN batch' = [entered(b, batch.i + BatchSize) EXCEPT
                         !.pauses = @ + 1, !.pausedMs = @ + BatchPauseMs]
        ELSE batch' = [b EXCEPT !.pc = "done"]
  /\ UNCHANGED <<pipelineVars, cat, ext, deletedAt, fileDelete, budget, readers>>

----------------------------------------------------------------------------
(* One extraction of a file by FileProcessorService.processFile, followed by *)
(* the categorization of its transactions with the classifier not configured *)

RowWholeFoods == [Date |-> "2024-01-17", Description |-> "Whole Foods", Amount |-> "-85.20"]
RowSalaryPlain == [Date |-> "2024-01-16", Description |-> "Salary", Amount |-> "3000.00"]
RowZero == [Date |-> "2024-01-18", Description |-> "Adjustment", Amount |-> "0"]
\* the first synonym is present but empty, the amount is under a later one
RowDebit == [Date |-> "2024-01-19", Description |-> "Uber", Amount |-> "", Debit |-> "40.00"]
RowNoDate == [Description |-> "Cafe", Amount |-> "-3.00"]
RowNoDescription == [Date |-> "2024-01-15", Description |-> "", Amount |-> "-3.00"]

ExtRows ==
  {RowStarbucks, RowSalary, RowSalaryPlain, RowWholeFoods, RowBadDate, RowZero,
   RowDebit, RowNoAmount, RowNotANumber, RowNoDate, RowNoDescription}

\* only strategy 3 reads an amount without decimals
CoffeeLine ==
  Line("01/15/2024 Coffee shop -4",
       <<>>,
       <<>>,
       << [date |-> "01/15/2024", description |-> "Coffee shop",
           amounts |-> <<"01", "15", "202", "4", "-4">>] >>)

\* a zero amount: no strategy makes a transaction of it
ZeroLine ==
  Line("01/18/2024 Adjustment 0.00",
       << [date |-> "01/18/2024", description |-> "Adjustment", amountStr |-> "0.00",
           paren |-> FALSE] >>,
       << [date |-> "01/18/2024", description |-> "Adjustment", amount1 |-> "0.00",
           amount2 |-> ""] >>,
       << [date |-> "01/18/2024", description |-> "Adjustment",
           amounts |-> <<"01", "18", "202", "4", "0.00">>] >>)

\* a debit in parentheses
FeeLine ==
  Line("01/19/2024 Wire fee ($25.00)",
       << [date |-> "01/19/2024", description |-> "Wire fee", amountStr |-> "25.00",
           paren |-> TRUE] >>,
       << [date |-> "01/19/2024", description |-> "Wire fee ($", amount1 |-> "25.00",
           amount2 |-> ""] >>,
       << [date |-> "01/19/2024", description |-> "Wire fee ()",
           amounts |-> <<"01", "19", "202", "4", "25.00">>] >>)

\* a debit and a credit column that touch: the only text whose third group matches
PayrollLine ==
  Line("01/17/2024 Payroll 0.002500.00 ok",
       <<>>,
       << [date |-> "01/17/2024", description |-> "Payroll", amount1 |-> "0.00",
           amount2 |-> "2500.00"] >>,
       << [date |-> "01/17/2024", description |-> "Payroll . ok",
           amounts |-> <<"01", "17", "202", "4", "0", "002", "500.00">>] >>)

ExtLines == {NetflixLine, RentLine, RentDueLine, CoffeeLine, ZeroLine, FeeLine, PayrollLine}

SeqsUpTo(S, n) == UNION {[1..k -> S] : k \in 0..n}

ExtIdle ==
  [pc |-> "idle", file |-> oddFile("u1"), day |-> 1, ok |-> FALSE, txs |-> <<>>,
   error |-> "", cats |-> <<>>]

\* the call has returned result
returned(file, day, result) ==
  [pc |-> "extracted", file |-> file, day |-> day, ok |-> result.ok,
   txs |-> result.txs, error |-> result.error, cats |-> <<>>]

extracted(file, day) == returned(file, day, extractFile(file, day))

\* two files of three rows
ThreeRows == <<RowStarbucks, RowSalaryPlain, RowWholeFoods>>
MixedRows == <<RowNotANumber, RowDebit, RowZero>>

\* a file of expenses whose descriptions hold keywords of two groups
RowApartmentStore ==
  [Date |-> "2024-01-20", Description |-> "Apartment store", Amount |-> "-20.00"]
RowVerizonStore ==
  [Date |-> "2024-01-21", Description |-> "Verizon store", Amount |-> "-60.00"]
RowPharmacyStore ==
  [Date |-> "2024-01-22", Description |-> "CVS Pharmacy store", Amount |-> "-12.30"]
RowGroceryStore ==
  [Date |-> "2024-01-23", Description |-> "Grocery store", Amount |-> "-45.00"]
TwoGroupRows == <<RowApartmentStore, RowVerizonStore, RowPharmacyStore, RowGroceryStore>>

\* the contents of the tabular files
ExtRowLists == SeqsUpTo(ExtRows, MaxRows) \cup {ThreeRows, MixedRows, TwoGroupRows}

\* FileProcessorService.processFile on a tabular file
ExtractCSV(rows, day) ==
  /\ ext.pc = "idle"
  /\ ext' = extracted(csvFile("u1", rows), day)
  /\ UNCHANGED <<pipelineVars, cat, batch, deletedAt, fileDelete, budget, readers>>

\* FileProcessorService.processFile on a document
ExtractPDF(lines, day) ==
  /\ ext.pc = "idle"
  /\ ext' = extracted(pdfFile("u1", lines), day)
  /\ UNCHANGED <<pipelineVars, cat, batch, deletedAt, fileDelete, budget, readers>>

\* FileProcessorService.processFile on a file of another type
ExtractOther(day) ==
  /\ ext.pc = "idle"
  /\ ext' = extracted(oddFile("u1"), day)
  /\ UNCHANGED <<pipelineVars, cat, batch, deletedAt, fileDelete, budget, readers>>

\* categorizeTransactions of the extracted transactions, classifier not configured
CategorizeExtracted ==
  /\ ext.pc = "extracted"
  /\ ext.ok
  /\ ext' = [ext EXCEPT !.pc = "done",
                        !.cats = categorizeTransactions(
                                    ext.txs, [i \in 1..Len(ext.txs) |-> FALSE])]
  /\ UNCHANGED <<pipelineVars, cat, batch, deletedAt, fileDelete, budget, readers>>

----------------------------------------------------------------------------
(* The pipeline specification *)

Init ==
  /\ scenario \in 1..Len(Scenarios)
  /\ today = 1
  /\ fileStatus = [f \in FileIds |-> "pending"]
  /\ processedAt = [f \in FileIds |-> FALSE]
  /\ txStore = {}
  /\ nextTxId = 1
  /\ req = [r \in Slots |-> IdleReq]
  /\ started = 0
  /\ faults = 0
  /\ edit = IdleEdit
  /\ edits = 0
  /\ lastDelete = [user |-> "", txId |-> 0, code |-> 0]
  /\ cat = CatIdle(TRUE)
  /\ batch = BatchIdle
  /\ ext = ExtIdle
  /\ deletedAt = [f \in FileIds |-> FALSE]
  /\ fileDelete = NoFileDelete
  /\ budget = BudgetIdle
  /\ readers = ReadersIdle

ProcessFileStep ==
  \/ \E r \in Slots : SelectFile(r)
  \/ \E r \in Slots : SetProcessing(r)
  \/ \E r \in Slots : Extract(r)
  \/ \E r \in Slots : SetErrorEmpty(r)
  \/ \E r \in Slots : Categorize(r)
  \/ \E r \in Slots : DuplicateCheck(r)
  \/ \E r \in Slots : InsertRow(r)
  \/ \E r \in Slots : SetCompleted(r)
  \/ \E r \in Slots : CatchSetError(r)

\* processFile requests, overlapping at will
Next ==
  \/ \E r \in Slots, u \in Users, f \in FileIds : StartProcessFile(r, u, f)
  \/ ProcessFileStep

Spec == Init /\ [][Next]_vars

\* processFile requests one after the other, with update and delete requests
\* arriving at any time
StartAlone(r, u, f) ==
  /\ \A o \in Slots : ~InFlight(o)
  /\ StartProcessFile(r, u, f)

EditNext ==
  \/ \E r \in Slots, u \in Users, f \in FileIds : StartAlone(r, u, f)
  \/ ProcessFileStep
  \/ \E u \in Users, id \in KnownTxIds, b \in EditBodies : StartUpdate(u, id, b)
  \/ UpdateCheck
  \/ UpdateApply
  \/ \E u \in Users, id \in KnownTxIds : DeleteTransaction(u, id)

EditSpec == Init /\ [][EditNext]_vars

\* processFile requests one after the other, with deleteFile requests arriving at
\* any time
FileNext ==
  \/ \E r \in Slots, u \in Users, f \in FileIds : StartAlone(r, u, f)
  \/ ProcessFileStep
  \/ \E u \in Users, f \in FileIds : DeleteFile(u, f)

FileSpec == Init /\ [][FileNext]_vars

\* generateBudget calls one after the other over a store at rest
BudgetInit ==
  /\ scenario = 1
  /\ today = 1
  /\ fileStatus = [f \in FileIds |-> "completed"]
  /\ processedAt = [f \in FileIds |-> TRUE]
  /\ txStore \in SUBSET BudgetRows
  /\ nextTxId = 8
  /\ req = [r \in Slots |-> IdleReq]
  /\ started = 0
  /\ faults = 0
  /\ edit = IdleEdit
  /\ edits = 0
  /\ lastDelete = [user |-> "", txId |-> 0, code |-> 0]
  /\ cat = CatIdle(TRUE)
  /\ batch = BatchIdle
  /\ ext = ExtIdle
  /\ deletedAt = [f \in FileIds |-> FALSE]
  /\ fileDelete = NoFileDelete
  /\ budget = BudgetIdle
  /\ readers = ReadersIdle

BudgetNext ==
  \/ \E u \in Users, m \in BudgetMonths, y \in BudgetYears : BudgetStart(u, m, y)
  \/ BudgetHistory
  \/ BudgetRecommend
  \/ BudgetInsights

BudgetSpec == BudgetInit /\ [][BudgetNext]_vars

\* the stores and requests of the pipeline, at rest
PipelineAtRest ==
  /\ scenario = 1
  /\ today = 1
  /\ fileStatus = [f \in FileIds |-> "pending"]
  /\ processedAt = [f \in FileIds |-> FALSE]
  /\ txStore = {}
  /\ nextTxId = 1
  /\ req = [r \in Slots |-> IdleReq]
  /\ started = 0
  /\ faults = 0
  /\ edit = IdleEdit
  /\ edits = 0
  /\ lastDelete = [user |-> "", txId |-> 0, code |-> 0]

\* calls of categorizeTransaction, one after the other, in a process whose
\* classifier is configured or not
CatInit ==
  /\ PipelineAtRest
  /\ \E configured \in BOOLEAN : cat = CatIdle(configured)
  /\ batch = BatchIdle
  /\ ext = ExtIdle
  /\ deletedAt = [f \in FileIds |-> FALSE]
  /\ fileDelete = NoFileDelete
  /\ budget = BudgetIdle
  /\ readers = ReadersIdle

CatNext ==
  \/ \E in \in CatInputs : CatStart(in)
  \/ GetCategories
  \/ RemoteAttempt
  \/ RetrySleep
  \/ CatTick

CatSpec == CatInit /\ [][CatNext]_vars

\* one call of categorizeTransactions
BatchInit ==
  /\ PipelineAtRest
  /\ cat = CatIdle(TRUE)
  /\ batch = BatchIdle
  /\ ext = ExtIdle
  /\ deletedAt = [f \in FileIds |-> FALSE]
  /\ fileDelete = NoFileDelete
  /\ budget = BudgetIdle
  /\ readers = ReadersIdle

BatchNext ==
  \/ \E transactions \in BatchInputs : BatchStart(transactions)
  \/ \E k \in 1..BatchSize, remoteOk \in BOOLEAN : BatchComplete(k, remoteOk)
  \/ BatchCollect

BatchSpec == BatchInit /\ [][BatchNext]_vars

\* concurrent reads of the category list, in a process that has not read it yet
CacheInit ==
  /\ PipelineAtRest
  /\ cat = CatIdle(TRUE)
  /\ batch = BatchIdle
  /\ ext = ExtIdle
  /\ deletedAt = [f \in FileIds |-> FALSE]
  /\ fileDelete = NoFileDelete
  /\ budget = BudgetIdle
  /\ readers = ReadersIdle

CacheNext ==
  \/ \E r \in Readers : ReadStart(r)
  \/ \E r \in Readers : ReadReturn(r)
  \/ ReadTick

CacheSpec == CacheInit /\ [][CacheNext]_vars

\* one extraction, of every tabular file and document of the bounded catalogue
ExtractNext ==
  \/ \E rows \in ExtRowLists, day \in 1..MaxDay : ExtractCSV(rows, day)
  \/ \E lines \in SeqsUpTo(ExtLines, MaxLines), day \in 1..MaxDay : ExtractPDF(lines, day)
  \/ \E day \in 1..MaxDay : ExtractOther(day)
  \/ CategorizeExtracted

ExtractInit == Init /\ scenario = 1

ExtractSpec == ExtractInit /\ [][ExtractNext]_vars

----------------------------------------------------------------------------
(* Claims about processFile, checked under Spec *)

Terminal == {"completed", "error"}

StatusEdges ==
  {<<"pending", "processing">>, <<"processing", "completed">>, <<"processing", "error">>}

\* C1: every change of a file's status follows pending -> processing,
\* processing -> completed or processing -> error; completed and error are final.
C1_StatusFollowsEdges ==
  [][\A f \in FileIds :
       fileStatus'[f] # fileStatus[f] => <<fileStatus[f], fileStatus'[f]>> \in StatusEdges]_vars

\* C2: once every request has answered, no file that a request set to processing is
\* still in processing: each such request left it in completed or error.
C2_ResolvesToTerminal ==
  (\A o \in Slots : ~InFlight(o)) =>
     \A r \in Slots :
        (req[r].pc = "done" /\ req[r].reached) => fileStatus[req[r].fileId] \in Terminal

\* C3: of two runs of the same file for the same user, one after the other, that both
\* complete, the second saves nothing and skips as many rows as the first saved.
C3_SecondRunSkipsAll ==
  \A r \in Slots :
     (/\ r + 1 \in Slots
      /\ req[r].pc = "done" /\ req[r + 1].pc = "done"
      /\ ~req[r].ov /\ ~req[r + 1].ov
      /\ req[r].user = req[r + 1].user /\ req[r].fileId = req[r + 1].fileId
      /\ req[r].resp.code = 200 /\ req[r + 1].resp.code = 200)
     => /\ req[r + 1].resp.saved = 0
        /\ req[r + 1].resp.dup = req[r].resp.saved

sameTriple(a, b) ==
  /\ a.transaction_date = b.transaction_date
  /\ a.description = b.description
  /\ a.amount = b.amount

\* C4: after runs that did not overlap, starting from an empty store, no two stored
\* rows of one user share the same (date, description, amount).
C4_NoDuplicateTriples ==
  (\A r \in Slots : ~req[r].ov) =>
     \A a, b \in txStore :
        (a.id # b.id /\ a.user_id = b.user_id) => ~sameTriple(a, b)

unsupported(f) == ~extractFile(FileOf(f), today).ok

\* C6: while a request for a file of unsupported type runs, the file's status is
\* never processing.
C6_UnsupportedNeverProcessing ==
  \A r \in Slots :
     (req[r].pc # "idle" /\ selectFile(req[r].fileId, req[r].user) # {}
        /\ unsupported(req[r].fileId))
     => fileStatus[req[r].fileId] # "processing"

answers(r) == req[r].pc # "done" /\ req'[r].pc = "done"

\* C7: a request whose extraction yielded zero transactions ends with the file in
\* status error and an error answer, with no categorization call, no insert and no
\* processed_at.
C7_EmptyExtractionEndsInError ==
  [][\A r \in Slots :
       (answers(r) /\ req[r].empty) =>
          /\ fileStatus'[req[r].fileId] = "error"
          /\ req'[r].resp.code \in {400, 500}
          /\ req'[r].catCalls = 0
          /\ req'[r].saved = 0
          /\ ~processedAt'[req[r].fileId]]_vars

\* C8: a request that met a store failure while saving row k ends with the file in
\* status error and the answer carrying the original message; no later row was
\* checked or inserted and the rows saved before row k stay stored.
C8_RowFailureEndsInError ==
  [][\A r \in Slots :
       (answers(r) /\ req[r].failedRow > 0) =>
          /\ fileStatus'[req[r].fileId] = "error"
          /\ req'[r].resp.code = 500
          /\ req'[r].resp.error = "Failed to process file: " \o StoreError
          /\ req'[r].i = req[r].failedRow
          /\ Cardinality({t \in txStore' : t.file_id = req[r].fileId
                                            /\ t.user_id = req[r].user})
               >= req[r].saved]_vars

----------------------------------------------------------------------------
(* Isolation between users, checked under EditSpec *)

\* the step is one of request r
acted(r) == <<req[r].pc, req[r].i>> # <<req'[r].pc, req'[r].i>>

\* the step is one of the updateTransaction request / is a deleteTransaction request
editActed == edit' # edit
deleteActed == edits' # edits /\ edit' = edit

rowsOfOthers(store, u) == {t \in store : t.user_id # u}

ownedByOther(id, u) == \E t \in txStore : t.id = id /\ t.user_id # u

\* a step of user u on file f touches no other file and no row of another user
FrameOf(u, f) ==
  /\ \A g \in FileIds :
        (g # f \/ FileOf(g).user_id # u) =>
           fileStatus'[g] = fileStatus[g] /\ processedAt'[g] = processedAt[g]
  /\ rowsOfOthers(txStore', u) = rowsOfOthers(txStore, u)

StoreUntouched ==
  /\ txStore' = txStore
  /\ fileStatus' = fileStatus
  /\ processedAt' = processedAt

\* the answers allowed to a request that names something of another user
IsolationStep(refusals) ==
  /\ \A r \in Slots :
        acted(r) =>
           /\ FrameOf(req'[r].user, req'[r].fileId)
           /\ (FileOf(req'[r].fileId).user_id # req'[r].user) =>
                 /\ StoreUntouched
                 /\ req'[r].pc = "done" => req'[r].resp.code \in refusals
  /\ editActed =>
        /\ FrameOf(edit'.user, "")
        /\ ownedByOther(edit'.txId, edit'.user) =>
              /\ StoreUntouched
              /\ edit'.pc = "done" => edit'.code \in refusals
  /\ deleteActed =>
        /\ FrameOf(lastDelete'.user, "")
        /\ ownedByOther(lastDelete'.txId, lastDelete'.user) =>
              /\ StoreUntouched
              /\ lastDelete'.code \in refusals

\* C9 (as stated): requests of a user never change a file or a row of another user,
\* and a request naming another user's file or transaction is answered not-found
\* with the store unchanged.
C9_IsolationNotFound == [][IsolationStep({404})]_vars

\* C9 (amended): the same, where the answer to such a request is not-found or, when
\* the ownership lookup itself fails, the server error.
C9_Isolation ==
  [][/\ IsolationStep({404, 500})
     /\ faults' = faults => IsolationStep({404})]_vars

\* a run on another user's file and an edit of another user's row were both refused
\* while that user has rows stored
C9_Witness ==
  /\ \E r \in Slots :
        /\ req[r].pc = "done"
        /\ FileOf(req[r].fileId).user_id # req[r].user
        /\ req[r].resp.code = 404
        /\ \E t \in txStore : t.user_id # req[r].user
  /\ edit.pc = "done" /\ edit.code = 404 /\ ownedByOther(edit.txId, edit.user)

----------------------------------------------------------------------------
(* The categorizer, checked under CatSpec *)

\* the remote classifier's last answer was a JSON object
deliveredObject(o) ==
  o.kind = "text" /\ o.body = "object" /\ ~attempted(o).thrown

\* the call met one of the failures: classifier not configured, or no JSON object
\* obtained from it (error on the last attempt, 401 or 403, empty or unparsable
\* text, JSON null, a scalar or an array)
CatFailureCase == ~cat.configured \/ ~deliveredObject(cat.remote)

----------------------------------------------------------------------------
(* The batches, checked under BatchSpec *)

\* C10: categorizeTransactions returns as many results as it was given transactions
\* and result i is the categorization of transaction i, in whatever order the
\* categorizations of a batch finish.
C10_OrderAndLength ==
  /\ batch.pc = "batch" => Len(batch.results) = batch.i
  /\ batch.pc = "done" =>
        /\ Len(batch.results) = Len(batch.input)
        /\ \A j \in 1..Len(batch.input) :
              batch.results[j] = categorized(batch.input[j], batch.remoteOk[j])

\* two batches, the second one shorter, and a categorization that finished before
\* an earlier one of its batch
C10_Witness ==
  /\ batch.pc = "done"
  /\ Len(batch.input) > BatchSize
  /\ batch.overtaken
  /\ batch.pauses = 1
  /\ batch.input[1] # batch.input[2]

----------------------------------------------------------------------------
(* Validity of the categorizer's result, checked under CatSpec *)

\* C11: every result of categorizeTransaction, on every path, has a non-empty
\* category of the known vocabulary (Other included) and a confidence within
\* [0, 1] (0 to 100 percent).
C11_ResultIsValid ==
  cat.pc = "done" =>
    /\ cat.result.category # ""
    /\ cat.result.category \in KnownCategories
    /\ cat.result.confidence >= 0 /\ cat.result.confidence <= 100

----------------------------------------------------------------------------
(* The extraction, checked under ExtractSpec *)

triple(t) == <<t.date, t.description, t.amount>>

\* what the parsing of the rows or lines yields, before any deduplication
rawExtraction(file, day) ==
  IF file.mime_type = "application/pdf"
  THEN orElse(orElse(parseStrategy1(file.lines, day), parseStrategy2(file.lines, day)),
              parseStrategy3(file.lines, day))
  ELSE Flatten([i \in 1..Len(file.rows) |-> parseCSVRow(file.rows[i], day)])

\* the elements of raw whose triple does not occur earlier in raw, in their order
firstOccurrences(raw) ==
  Flatten([i \in 1..Len(raw) |->
             IF \E j \in 1..(i - 1) : triple(raw[j]) = triple(raw[i])
             THEN <<>> ELSE <<raw[i]>>])

\* C12: the list one extraction returns, of a tabular file or of a document, holds
\* no two transactions with the same (date, description, amount); it is the list of
\* first occurrences of the parsed transactions, in their order.
C12_ExtractionHasNoRepeats ==
  (ext.pc # "idle" /\ ext.ok) =>
     /\ \A i, j \in 1..Len(ext.txs) : i # j => triple(ext.txs[i]) # triple(ext.txs[j])
     /\ ext.txs = firstOccurrences(rawExtraction(ext.file, ext.day))

\* C13: every extracted transaction, of whatever path, has an amount >= 0; the
\* direction is in isIncome only.
C13_AmountsNotNegative ==
  ext.pc # "idle" =>
     \A i \in 1..Len(ext.txs) :
        /\ ext.txs[i].amount >= 0
        /\ ext.txs[i].isIncome \in BOOLEAN

\* a negative amount read by the last strategy of a document came out positive
C13_Witness ==
  /\ ext.pc # "idle"
  /\ ext.file.mime_type = "application/pdf"
  /\ ext.file.lines = <<CoffeeLine>>
  /\ Len(ext.txs) = 1
  /\ ext.txs[1].amount = 4000 /\ ~ext.txs[1].isIncome

\* what a row of the catalogue must yield: nothing, or description, |v| and v > 0
expectedOfRow(row) ==
  CASE row = RowStarbucks -> <<[description |-> "Starbucks", amount |-> 5500, isIncome |-> FALSE]>>
    [] row = RowSalary -> <<[description |-> "Salary", amount |-> 3000000, isIncome |-> TRUE]>>
    [] row = RowSalaryPlain -> <<[description |-> "Salary", amount |-> 3000000, isIncome |-> TRUE]>>
    [] row = RowWholeFoods -> <<[description |-> "Whole Foods", amount |-> 85200, isIncome |-> FALSE]>>
    [] row = RowBadDate -> <<[description |-> "Uber trip", amount |-> 12000, isIncome |-> FALSE]>>
    [] row = RowZero -> <<[description |-> "Adjustment", amount |-> 0, isIncome |-> FALSE]>>
    [] row = RowDebit -> <<[description |-> "Uber", amount |-> 40000, isIncome |-> TRUE]>>
    [] row = RowApartmentStore ->
         <<[description |-> "Apartment store", amount |-> 20000, isIncome |-> FALSE]>>
    [] row = RowVerizonStore ->
         <<[description |-> "Verizon store", amount |-> 60000, isIncome |-> FALSE]>>
    [] row = RowPharmacyStore ->
         <<[description |-> "CVS Pharmacy store", amount |-> 12300, isIncome |-> FALSE]>>
    [] row = RowGroceryStore ->
         <<[description |-> "Grocery store", amount |-> 45000, isIncome |-> FALSE]>>
    [] OTHER -> <<>>

withoutDate(t) ==
  [description |-> t.description, amount |-> t.amount, isIncome |-> t.isIncome]

\* C14: of a tabular file, every row with date, description and amount under a
\* synonym key and a numeric amount v yields one transaction with amount |v| and
\* isIncome = (v > 0); every other row yields nothing, raises nothing and does not
\* stop the rows after it.
C14_RowsParsed ==
  (ext.pc # "idle" /\ ext.file.mime_type = "text/csv") =>
     /\ ext.ok
     /\ [i \in 1..Len(ext.txs) |-> withoutDate(ext.txs[i])]
          = Flatten([i \in 1..Len(ext.file.rows) |-> expectedOfRow(ext.file.rows[i])])

\* an unparsable amount, then an amount under a later synonym, then a zero amount
C14_Witness ==
  /\ ext.pc # "idle"
  /\ ext.file.rows = MixedRows
  /\ Len(ext.txs) = 2
  /\ ext.txs[1].isIncome /\ ext.txs[1].amount = 40000
  /\ ~ext.txs[2].isIncome /\ ext.txs[2].amount = 0

----------------------------------------------------------------------------
(* The stored description, checked under EditSpec *)

\* what the store must hold of a description d on its way in
cutAsSpecified(d, stored) ==
  /\ Len(stored) <= DescLimit
  /\ Len(d) <= DescLimit => stored = d
  /\ Len(d) > DescLimit => endsWith(stored, "...")

\* C15: every stored description has at most 500 characters; a description cut on
\* its way into the store, by an insert of processFile or by updateTransaction,
\* is stored with the truncation marker at its end; one of at most 500 characters
\* is stored unchanged.
C15_CutWithMarker ==
  [][ /\ \A t \in txStore' : Len(t.description) <= DescLimit
      /\ \A r \in Slots :
            (acted(r) /\ req[r].pc = "insert" /\ nextTxId' # nextTxId) =>
               \A t \in txStore' :
                  t.id = nextTxId =>
                     cutAsSpecified(req[r].txs[req[r].i].description, t.description)
      /\ (editActed /\ edit.pc = "update" /\ edit'.code = 200
            /\ edit.body.description.given) =>
            \A t \in txStore' :
               t.id = edit.txId =>
                  cutAsSpecified(edit.body.description.value, t.description)
    ]_vars

----------------------------------------------------------------------------
(* What may change a stored row, checked under EditSpec *)

\* the columns no request may change
fixedColumns(t) ==
  <<t.id, t.user_id, t.file_id, t.transaction_date, t.amount, t.is_income>>

\* row n is row o after an edit with this body
editedAsAsked(o, n, body) ==
  /\ fixedColumns(n) = fixedColumns(o)
  /\ ~body.category.given => n.category = o.category
  /\ body.category.given => n.category = body.category.value
  /\ ~body.subcategory.given => n.subcategory = o.subcategory
  /\ body.subcategory.given => n.subcategory = body.subcategory.value
  /\ ~body.description.given => n.description = o.description

\* C16: updateTransaction changes only the supplied fields among category,
\* subcategory and description of the addressed row and leaves its date, amount,
\* isIncome, userId and fileId and every other row as they were; an update with
\* no field is answered 400 with the store unchanged; no step of processFile
\* changes a row already stored.
C16_OnlyEditsChangeRows ==
  [][ /\ (editActed /\ edit.pc = "update" /\ edit'.code = 200) =>
            /\ {t \in txStore' : t.id # edit.txId} = {t \in txStore : t.id # edit.txId}
            /\ \A o \in txStore :
                  o.id = edit.txId =>
                     \E n \in txStore' :
                        /\ editedAsAsked(o, n, edit.body)
                        /\ \A m \in txStore' : m.id = o.id => m = n
      /\ (editActed /\ ~(edit.pc = "update" /\ edit'.code = 200)) => txStore' = txStore
      /\ (editActed /\ edit.pc = "check"
            /\ ~(edit.body.category.given \/ edit.body.subcategory.given
                   \/ edit.body.description.given)) =>
            edit'.code \in {400, 404, 500} /\ edit'.pc = "done"
      /\ \A r \in Slots : acted(r) => txStore \subseteq txStore'
    ]_vars

\* an edit of the category alone was applied to one of two stored rows
C16_Witness ==
  /\ edit.pc = "done" /\ edit.code = 200
  /\ Cardinality(txStore) >= 2
  /\ \E t \in txStore :
        /\ t.id = edit.txId
        /\ t.category = "Travel"
        /\ t.description = "Starbucks"
        /\ t.amount = 5500

----------------------------------------------------------------------------
(* Transactions of a deleted file, checked under FileSpec *)

fileDeleteActed == fileDelete' # fileDelete \/ deletedAt' # deletedAt

\* C17: when deleteFile deletes a file for its user, every transaction extracted
\* from the file is retained with its fileId cleared, and no stored transaction
\* references a deleted file.
C17_DeletedFileUnreferenced ==
  /\ [](\A t \in txStore : t.file_id # "" => ~deletedAt[t.file_id])
  /\ [][ (fileDeleteActed /\ fileDelete'.code = 200) =>
            \A t \in txStore :
               \E n \in txStore' :
                  n = IF t.file_id = fileDelete'.fileId
                      THEN [t EXCEPT !.file_id = ""] ELSE t
       ]_vars

----------------------------------------------------------------------------
(* The aggregation, checked under BudgetSpec *)

RECURSIVE sumOver(_, _)
\* the sum of f over the set S
sumOver(f, S) ==
  IF S = {} THEN 0 ELSE LET c == CHOOSE x \in S : TRUE IN f[c] + sumOver(f, S \ {c})

periodRows(u, m, y) ==
  {t \in txStore : /\ t.user_id = u
                   /\ SubSeq(t.transaction_date, 1, 7)
                        = (IF m = 1 THEN "2024-01" ELSE IF m = 2 THEN "2024-02"
                           ELSE "2024-03")}

\* two fractions over the same denominator
sameRate(a, b) == a.den = b.den /\ a.num = b.num

\* C18: for every user and period generateBudget returns, without an error, the
\* sum of the period's income amounts as totalIncome, the sum of its other amounts
\* as totalExpenses, savingsRate = (income - expenses) / income * 100 when income
\* is positive and 0 when income is 0, also with expenses 0; the per-category
\* totals add up to totalExpenses; and the computation changes no stored data.
C18_Aggregation ==
  /\ [](LET rows == periodRows(budget.user, budget.month, budget.year)
            income == sumAmounts({t \in rows : t.is_income})
            expenses == sumAmounts({t \in rows : ~t.is_income})
        IN (budget.pc = "done" /\ budget.error # StoreError) =>
              /\ budget.error = ""
              /\ budget.totalIncome = income
              /\ budget.totalExpenses = expenses
              /\ income > 0 => sameRate(budget.savingsRate,
                                        Rate((income - expenses) * 100, income))
              /\ income = 0 => budget.savingsRate.num = 0
              /\ sumOver(budget.categorySpending, DOMAIN budget.categorySpending)
                   = budget.totalExpenses)
  /\ [][ budget' # budget => /\ txStore' = txStore
                             /\ fileStatus' = fileStatus
                             /\ processedAt' = processedAt ]_vars

----------------------------------------------------------------------------
(* The fallback categorization, checked under ExtractSpec *)

\* category and confidence (percent) the fallback must give
expectedCategory(description, isIncome) ==
  CASE isIncome -> <<"Income", 80>>
    [] description \in {"Starbucks", "Whole Foods", "Coffee shop"} -> <<"Food & Dining", 85>>
    [] description \in {"Uber", "Uber trip"} -> <<"Transportation", 85>>
    [] description \in {"Rent", "Rent  due", "Apartment store"} -> <<"Housing", 90>>
    [] description = "Verizon store" -> <<"Utilities", 90>>
    [] description = "Grocery store" -> <<"Food & Dining", 85>>
    [] description = "CVS Pharmacy store" -> <<"Shopping", 75>>
    [] description = "Netflix" -> <<"Entertainment", 85>>
    [] description \in {"Adjustment", "Wire fee", "Payroll", "Salary"} -> <<"Other", 50>>
    [] OTHER -> <<"", 0>>

\* C19: without the classifier every transaction is categorized by the fallback, a
\* function of (description, isIncome) alone: Income at 0.8 for income, else the
\* category and confidence of the first keyword group that matches, else Other at
\* 0.5. The rows (2024-01-15, Starbucks, -5.50), (2024-01-16, Salary, 3000.00),
\* (2024-01-17, Whole Foods, -85.20) yield three transactions: expenses of 5.50 and
\* 85.20 in Food & Dining at 0.85 and an income of 3000.00 in Income at 0.8.
C19_FallbackCategories ==
  ext.pc = "done" =>
     /\ Len(ext.cats) = Len(ext.txs)
     /\ \A i \in 1..Len(ext.txs) :
           /\ ext.cats[i].description = ext.txs[i].description
           /\ <<ext.cats[i].category, ext.cats[i].confidence>>
                = expectedCategory(ext.txs[i].description, ext.txs[i].isIncome)
     /\ \A i, j \in 1..Len(ext.txs) :
           (/\ ext.txs[i].description = ext.txs[j].description
            /\ ext.txs[i].isIncome = ext.txs[j].isIncome) => ext.cats[i] = ext.cats[j]
     /\ ext.file.rows = ThreeRows =>
           /\ [i \in 1..3 |-> <<ext.txs[i].date, ext.txs[i].description,
                                ext.txs[i].amount, ext.txs[i].isIncome>>]
                = << <<"2024-01-15", "Starbucks", 5500, FALSE>>,
                     <<"2024-01-16", "Salary", 3000000, TRUE>>,
                     <<"2024-01-17", "Whole Foods", 85200, FALSE>> >>
           /\ [i \in 1..3 |-> <<ext.cats[i].category, ext.cats[i].confidence>>]
                = << <<"Food & Dining", 85>>, <<"Income", 80>>, <<"Food & Dining", 85>> >>

\* the three rows were extracted and categorized without the classifier
C19_Witness ==
  /\ ext.pc = "done"
  /\ ext.file.rows = ThreeRows
  /\ Len(ext.cats) = 3
  /\ ext.cats[2].category = "Income"

----------------------------------------------------------------------------
(* Overlapping runs, checked under Spec *)

\* run r has passed the duplicate check of its row, the amount of the row is in
\* whole cents, and a row with the triple of its row is stored for its user
aboutToDuplicate(rq, store) ==
  /\ rq.pc = "insert"
  /\ storeAmount(rq.txs[rq.i].amount) = rq.txs[rq.i].amount
  /\ \E t \in store :
        /\ t.user_id = rq.user
        /\ t.transaction_date = rq.txs[rq.i].date
        /\ t.description = truncateDescription(rq.txs[rq.i].description)
        /\ t.amount = rq.txs[rq.i].amount

\* C20: with two overlapping processFile runs of one user the existence check does
\* not exclude a duplicate: a run that has passed the check of its row comes to
\* face a stored row with the same (date, description, amount) only by the insert of
\* another run made between its check and its insert, and it then inserts the
\* duplicate.
C20_DuplicateOnlyByOverlap ==
  [][ \A r \in Slots :
         (aboutToDuplicate(req'[r], txStore') /\ ~aboutToDuplicate(req[r], txStore)) =>
            /\ req[r].pc = "insert"
            /\ \E o \in Slots \ {r} :
                  /\ acted(o) /\ req[o].pc = "insert"
                  /\ req[o].user = req[r].user
                  /\ txStore' # txStore
            /\ req[r].ov
    ]_vars

\* both runs have inserted, and two rows of the user share their whole-cent triple
C20_Witness ==
  /\ \A r \in Slots : req[r].ov /\ req[r].saved >= 1 /\ req[r].user = "u1"
  /\ \E a, b \in txStore :
        /\ a.id # b.id
        /\ a.user_id = "u1" /\ b.user_id = "u1"
        /\ sameTriple(a, b)
        /\ a.description = "Starbucks" /\ a.amount = 5500

----------------------------------------------------------------------------
(* The retry policy, checked under CatSpec *)

\* the last attempt of the call threw an error that is not one of authentication
failedForGood ==
  /\ cat.pc = "done"
  /\ cat.remote.kind # "none"
  /\ attempted(cat.remote).thrown
  /\ attempted(cat.remote).status \notin {401, 403}

\* C21: a remote call that keeps failing with a non-authentication error is
\* attempted exactly 3 times and never a 4th time, the delays taken after the
\* failed attempts are 1 s, 2 s and 4 s, and only then the fallback answers; an
\* attempt that succeeds ends the call with no further remote call.
C21_RetryPolicy ==
  /\ [](cat.attempt <= MAX_RETRIES - 1)
  /\ [](failedForGood =>
          /\ cat.attempt = MAX_RETRIES - 1
          /\ cat.slept = <<1000, 2000, 4000>>
          /\ cat.path = "fallback")
  /\ [][ (cat.pc = "remote" /\ cat'.pc # "remote" /\ ~attempted(cat'.remote).thrown) =>
            cat'.pc = "done" /\ cat'.attempt = cat.attempt
       ]_vars


\* the result the fallback must give for the inputs of the categorizer
expectedOfInput(description, isIncome) ==
  CASE isIncome -> <<"Income", 80>>
    [] description = "Netflix" -> <<"Entertainment", 85>>
    [] OTHER -> <<"Other", 50>>

authFailure(o) == o.kind = "error" /\ o.status \in {401, 403}

\* C22: a failure of the remote classifier with status 401 or 403 is never
\* retried: on whichever attempt it occurs no delay and no further remote call
\* follows, and the result is the fallback categorization of the transaction.
C22_AuthFailureNotRetried ==
  /\ [][ (cat.pc = "remote" /\ cat' # cat /\ authFailure(cat'.remote)) =>
            /\ cat'.pc = "done"
            /\ cat'.slept = cat.slept
            /\ cat'.attempt = cat.attempt
       ]_vars
  /\ []((cat.pc = "done" /\ authFailure(cat.remote)) =>
           /\ cat.path = "fallback" /\ ~cat.raised
           /\ cat.result.description = cat.description
           /\ <<cat.result.category, cat.result.confidence>>
                = expectedOfInput(cat.description, cat.isIncome))
  /\ [](cat.pc = "sleep" => ~authFailure(cat.remote))

\* the second attempt failed with status 401 and the call ended there
C22_Witness ==
  /\ cat.pc = "done"
  /\ cat.remote = Failure(401)
  /\ cat.attempt = 1
  /\ cat.slept = <<1000>>
  /\ cat.result.category = "Entertainment"

----------------------------------------------------------------------------
(* The batches, checked under BatchSpec *)

\* the number of batches of n transactions
batchesOf(n) == (n + 4) \div 5

\* C23: within one categorizeTransactions call at most 5 categorizations are in
\* flight at any time; no categorization of the next batch starts before every
\* categorization of the running batch has finished; a pause of 1 second separates
\* consecutive batches and no pause follows the last batch.
C23_BatchesOfFive ==
  /\ [](Cardinality(batch.pending) <= 5)
  /\ [][ batch'.i # batch.i =>
            /\ batch.pending = {}
            /\ Len(batch'.results) = batch.i + 5
            /\ batch'.pausedMs = batch.pausedMs + 1000
       ]_vars
  /\ [][ batch'.i = batch.i => batch'.pausedMs = batch.pausedMs ]_vars
  /\ [](batch.pc = "done" =>
          batch.pausedMs = IF Len(batch.input) = 0 THEN 0
                           ELSE 1000 * (batchesOf(Len(batch.input)) - 1))

\* the second batch runs after one pause, the five of the first batch collected
C23_Witness ==
  /\ batch.pc = "batch"
  /\ batch.i = 5
  /\ Len(batch.results) = 5
  /\ batch.pausedMs = 1000
  /\ Cardinality(batch.pending) = 2

----------------------------------------------------------------------------
(* The vocabulary of the prompt, checked under CatSpec *)

FixedVocabulary ==
  {"Housing", "Transportation", "Food & Dining", "Utilities", "Entertainment",
   "Shopping", "Healthcare", "Personal Care", "Education", "Travel", "Subscriptions",
   "Income", "Other"}

namesOf(list) == {list[i] : i \in 1..Len(list)}

\* C24: when the read of the category store fails or returns the empty list, the
\* vocabulary put in the prompt is the built-in default list, and that list is
\* equivalent to the fixed vocabulary of thirteen categories.
C24_DefaultVocabulary ==
  cat.pc \in {"remote", "sleep"} =>
     /\ cat.storeFailed => namesOf(cat.categories) = FixedVocabulary
     /\ cat.categories # <<>>
     /\ namesOf(DefaultCategories) = FixedVocabulary

----------------------------------------------------------------------------
(* The strategy cascade, checked under ExtractSpec *)

\* the result of the first of three strategies that yields a transaction
firstNonEmpty(a, b, c) == IF a # <<>> THEN a ELSE IF b # <<>> THEN b ELSE c

cascadeHolds(txs, a, b, c) ==
  /\ txs = firstOccurrences(firstNonEmpty(a, b, c))
  /\ txs = <<>> <=> (a = <<>> /\ b = <<>> /\ c = <<>>)

\* C25: for a document the parser returns the deduplicated result of the first
\* strategy when it yields a transaction, otherwise that of the second when it
\* yields one, otherwise that of the third; results of two strategies are never
\* merged, and the result is empty only when all three yield nothing.
C25_Cascade ==
  (ext.pc # "idle" /\ ext.file.mime_type = "application/pdf") =>
     cascadeHolds(ext.txs,
                  parseStrategy1(ext.file.lines, ext.day),
                  parseStrategy2(ext.file.lines, ext.day),
                  parseStrategy3(ext.file.lines, ext.day))

\* the first strategy reads neither line, the second reads one of them and the
\* third would read both: the result is that of the second
C25_Witness ==
  /\ ext.pc # "idle"
  /\ ext.file.mime_type = "application/pdf"
  /\ ext.file.lines = <<PayrollLine, CoffeeLine>>
  /\ Len(ext.txs) = 1
  /\ ext.txs[1].description = "Payroll"

----------------------------------------------------------------------------
(* The order of the keyword groups, checked under ExtractSpec *)

\* the category of an expense whose description holds a keyword of the group and
\* a keyword of Shopping, and no keyword of another group
ahead(description) ==
  CASE description = "Apartment store" -> "Housing"
    [] description = "Verizon store" -> "Utilities"
    [] description = "CVS Pharmacy store" -> "Healthcare"
    [] description = "Grocery store" -> "Food & Dining"
    [] OTHER -> ""

\* C26: the Housing, Utilities and Healthcare groups are tested before Shopping:
\* an expense whose description holds a keyword of one of them and a keyword of
\* Shopping is categorized Housing, Utilities or Healthcare and never Shopping;
\* one holding grocery and a keyword of Shopping is categorized Food & Dining.
C26_GroupsAheadOfShopping ==
  ext.pc = "done" =>
     \A i \in 1..Len(ext.txs) :
        (~ext.txs[i].isIncome /\ ahead(ext.txs[i].description) # "") =>
           /\ ext.cats[i].category = ahead(ext.txs[i].description)
           /\ ext.cats[i].category # "Shopping"

----------------------------------------------------------------------------
(* The category cache, checked under CacheSpec *)

readStarted(r) ==
  /\ readers.reader[r].pc \in {"idle", "done"}
  /\ readers'.reader[r].reads = readers.reader[r].reads + 1

readReturned(r) == readers.reader[r].pc = "query" /\ readers'.reader[r].pc = "done"

\* C27: a read returns the cached value without reading the store iff a value is
\* cached and its timestamp is less than 60 s old; otherwise the store is read and,
\* on success, value and timestamp are replaced together; a failed refresh leaves
\* both unchanged. Concurrent stale readers each read the store, the last writer
\* wins, and no reader receives a cached value whose age is at or beyond 60 s.
C27_Cache ==
  /\ [][ \A r \in Readers :
            readStarted(r) =>
               /\ readers'.cache = readers.cache
               /\ IF readers.cache.set /\ readers.clock - readers.cache.time < 60000
                  THEN /\ readers'.reader[r].pc = "done"
                       /\ readers'.reader[r].source = "cache"
                       /\ readers'.reader[r].got = readers.cache.names
                  ELSE readers'.reader[r].pc = "query"
       ]_vars
  /\ [][ \A r \in Readers :
            readReturned(r) =>
               \/ /\ readers'.reader[r].source = "store"
                  /\ readers'.cache.set
                  /\ readers'.cache.names = readers'.reader[r].got
                  /\ readers'.cache.time = readers.reader[r].now
               \/ /\ readers'.reader[r].source = "default"
                  /\ readers'.cache = readers.cache
       ]_vars
  /\ [](\A r \in Readers :
          (readers.reader[r].pc = "done" /\ readers.reader[r].source = "cache") =>
             readers.reader[r].age < 60000)

\* two readers found the cached value stale and both await their own store read
C27_Witness ==
  /\ readers.cache.set
  /\ readers.clock - readers.cache.time >= CACHE_TTL_MS
  /\ \A r \in Readers : readers.reader[r].pc = "query"

----------------------------------------------------------------------------
(* Counts and timestamps of processFile, checked under Spec; deleted files *)
(* under FileSpec                                                          *)

endsCompleted(r) ==
  /\ req[r].pc = "setCompleted"
  /\ req'[r].pc = "done"
  /\ fileStatus'[req[r].fileId] = "completed"

rowsOf(store, user) == Cardinality({t \in store : t.user_id = user})

\* C28: whenever a run ends with status completed, savedCount + duplicateCount is
\* the number of transactions extracted, the user's stored rows grew by exactly
\* savedCount during the run when no other request overlapped it, and the response
\* reports these two counts.
C28_CountConservation ==
  [][ \A r \in Slots :
        endsCompleted(r) =>
           /\ req[r].saved + req[r].dup = Len(req[r].txs)
           /\ ~req[r].ov => rowsOf(txStore', req[r].user)
                              = req[r].rowsBefore + req[r].saved
           /\ req'[r].resp.code = 200
           /\ req'[r].resp.saved = req[r].saved
           /\ req'[r].resp.dup = req[r].dup
    ]_vars

\* a run alone ended completed having saved one row and skipped one
C28_Witness ==
  \E r \in Slots :
     /\ req[r].pc = "done"
     /\ req[r].resp.code = 200
     /\ ~req[r].ov
     /\ req[r].resp.saved = 1
     /\ req[r].resp.dup = 1
     /\ Len(req[r].txs) = 2
     /\ fileStatus[req[r].fileId] = "completed"

\* C29: a file whose processed_at is set has status completed; a file in pending,
\* processing or error never carries a processed_at, also when processed again.
C29_ProcessedAtOnlyCompleted ==
  \A f \in FileIds : processedAt[f] => fileStatus[f] = "completed"

\* C30: a processFile request for a file deleted before the request is answered
\* not-found, leaves the file's status unchanged and inserts no transaction.
C30_DeletedFileNotProcessed ==
  [][ \A r \in Slots :
        (req[r].gone /\ InFlight(r)) =>
           /\ fileStatus'[req[r].fileId] = fileStatus[req[r].fileId]
           /\ \A t \in txStore' \ txStore : t.file_id # req[r].fileId
           /\ (req[r].pc = "select" /\ req'[r].pc # "select" /\ faults' = faults)
                 => (req'[r].pc = "done" /\ req'[r].resp.code = 404)
    ]_vars

============================================================================
